---- MODULE Spec2Model ----
(***************************************************************************)
(* Job lifecycle of the knowledge-base API: the repositories               *)
(* (PostgresRepository, MilvusRepository, QdrantJobRepository,             *)
(* RedisJobRepository), the periodic sweeps that discover pending jobs,    *)
(* the broker tasks that embed them and the poll-loop worker.              *)
(*                                                                         *)
(* Every await of the Python code is a separate step, so that two sweeps   *)
(* or two workers interleave exactly where the event loop, or two worker   *)
(* processes, let them.  A SQL statement, a transaction that takes the row *)
(* lock (SELECT ... FOR UPDATE) and a single vector-store call are atomic. *)
(***************************************************************************)
EXTENDS Integers, Sequences, FiniteSets, TLC

(* ------------------------------ bounds --------------------------------- *)
NumJobs == 2
NumWorkers == 2
NumSweeps == 2
NumOwners == 2
MaxTime == 6
MaxQueue == 2
MaxClock == 2
MaxSec == 2
MaxRequests == 11
NumValues == 2
MaxCount == 8
MaxAmount == 2
MaxTextLen == 620
MaxChunks == 6
NumAttachments == 2
MaxStores == 2
MaxAttachmentChunks == 2
NumPolledJobs == 3
NumBackupKeys == 2
NumKeyUsers == 2
MaxRetries == 2
NumApiKeys == 2
MaxSubmitted == 3
MaxAttempts == 10
MaxTtl == 6
\* length of the longest text given to the configured chunker
MaxConfiguredLen == 130

(* -------------------------- program constants -------------------------- *)
\* claim_job(..., ttl_seconds = 60 * 5), in minutes
ClaimTtl == 5
\* create_job(..., expiration = 60 * 60 * 24 * 7), in minutes
JobExpiration == 10080
\* PostgresRepository.get_pending_jobs: LIMIT 4
PgLimit == 4
\* MilvusRepository.get_pending_jobs: scroll(limit=10) per collection
MilvusLimit == 10
\* QdrantJobRepository.get_pending_jobs: scroll(limit=1) per collection
QdrantLimit == 1
\* SnowflakeID.next_id: self.sequence = (self.sequence + 1) & 4095
SequenceMask == 4095
\* SnowflakeID.next_id: (current_timestamp - self.epoch) << 22
TimestampShift == 22
\* SnowflakeID.next_id: self.machine_id << 12
MachineShift == 12
\* snowflake_generator = SnowflakeID(): machine_id = 0
MachineId == 0
\* check_rate_limit: .get("requests_per_minute", 10)
RequestsPerMinute == 10
\* check_rate_limit: window_start = now - 60, rate_key bucket now // 60
RateWindow == 60
\* TextChunker.__init__: int(os.environ.get("CHUNK_SIZE", 300))
ChunkSize == 300
\* TextChunker.__init__: int(os.environ.get("CHUNK_OVERLAP", 50))
ChunkOverlap == 50
\* _find_break_point: window_size = 50
WindowSize == 50
BatchSize == 10
\* connect_with_retry: delays in seconds and attempt limits
RedisInitialDelay == 30
RedisMaxDelay == 600
PgMaxRetries == 5
QdrantMaxRetries == 5
QdrantRetryDelay == 5
\* the answer of Redis TTL for a key that does not exist
NoSuchKey == -2
\* a request without X-API-Key header, and one whose header is the empty string
NoHeader == -1
\* what get returns for an absent job:{id}:client key, and the creator of a job
\* that does not exist yet
NoClient == 0
EmptyKey == 0

Jobs == 1..NumJobs
Workers == 1..NumWorkers
Sweeps == 1..NumSweeps
Owners == 1..NumOwners
\* threads calling next_id of the one generator
Threads == 1..NumWorkers
\* request handlers running rate_limit_middleware, and the clients
Handlers == 1..NumWorkers
Clients == 1..NumOwners
\* the minute buckets now // 60 that name a rate key
Buckets == 0..(MaxSec \div RateWindow)
\* coroutines calling the cache, and the values they write to the key
Callers == 1..NumWorkers
Values == 1..NumValues

\* the tenant whose collection holds job j
OwnerOf(j) == ((j - 1) % NumOwners) + 1

VARIABLES
    now,          \* wall clock, minutes
    status,       \* job -> stored status (status column / analysis_status / job:{id}:status)
    lockExpires,  \* job -> expires_at column / lock_expires_at payload, 0 when unset
    errorMsg,     \* job -> stored error message, "" when unset
    resultsBy,    \* job -> workers whose store_job_results for the job took effect
    queue,        \* job -> number of broker tasks waiting with task_id = job
    swPc,         \* sweep -> position in get_pending_jobs / schedule_task
    swRows,       \* sweep -> candidates selected by the sweep, in order
    swIdx,        \* sweep -> loop index
    returnedBy,   \* job -> sweeps whose get_pending_jobs returned the job
    wPc,          \* worker -> position in its handler
    wJob,         \* worker -> job it handles, 0 when idle
    wSeen,        \* worker -> status it read for the job
    claimRes,     \* worker -> job -> result of its claim_job call
    claimExp,     \* worker -> job -> lock expiry its successful claim set
    claimBase,    \* job -> status at the first claim_job call on it
    lastWriter,   \* job -> role that wrote the status last
    hook,         \* job -> outcome of the last webhook call made for it
    sfClock,      \* snowflake: time.time() * 1000, relative to the epoch
    last_timestamp,     \* snowflake: self.last_timestamp
    sequence,           \* snowflake: self.sequence
    sfLock,             \* snowflake: thread holding self.lock, 0 when free
    sfPc,               \* snowflake: thread -> position in next_id
    current_timestamp,  \* snowflake: thread -> its local current_timestamp
    sfPrev,             \* snowflake: the id issued before the last one
    sfId,               \* snowflake: the id issued last
    rlNow,        \* rate limiter: int(time.time()), seconds
    rlSet,        \* rate limiter: client -> minute bucket -> members of the sorted set
    rlPc,         \* rate limiter: handler -> position in check_rate_limit
    rlClient,     \* rate limiter: handler -> client of its request
    rlAt,         \* rate limiter: handler -> the value of now it read
    rlAdmitted,   \* rate limiter: client -> requests answered without 429
    rlCalls,      \* rate limiter: requests received so far
    cRedis,       \* cache: value of the key in Redis, 0 when missing
    cPg,          \* cache: value of the key in PostgreSQL, 0 when missing
    cPc,          \* cache: caller -> position in setex / get
    cVal,         \* cache: caller -> value it writes
    cRepop,       \* cache: values of the repopulation tasks not yet run
    cLastWrite,   \* cache: value of the setex call made last
    cDeleted,     \* cache: a delete returned with no write in flight, none started since
    ctrRedis,     \* counter key: value in Redis
    ctrPg,        \* counter key: value mirrored to PostgreSQL, 0 when missing
    ctrTasks,      \* counter key: values of the mirror tasks not yet run
    ckPc, \* chunker: position in chunk_text
    ckText, \* chunker: the text argument, a sequence of characters
    ckStart, \* chunker: start, an index counted from 0
    ckChunks, \* chunker: chunks, each a sequence of characters
    ckBreaks, \* chunker: <<target position, break point>> of each _find_break_point call
    emPc, \* position in the embedding task (body, batch, attach, store, done, raised)
    emDoc, \* document being embedded: 0 is the body, k the k-th attachment
    emChunks, \* len(chunks) of the text being embedded
    emStart, \* start_idx of embedding_text
    emAll, \* all_embeddings of the text being embedded (chunk_index values)
    emFailed, \* start_idx of the batches whose embedding raised
    emResults, \* results list of start_embedding
    emSkipped, \* attachments rejected or failed
    emPoints, \* points persisted in the collection
    emNextId, \* number of point ids drawn so far
    emStores, \* store_job_results calls made
    emStatus, \* status of the embedding job
    shPc, \* position of the polling worker (polling, processing, exited)
    shJob, \* job the worker is processing, 0 when none
    shStatus, \* status of each job in the repository
    kLimited, \* keys with an openai_limited flag in Redis
    kRedisOk, \* whether Redis answers
    kPc, \* position of each analyze_text call (idle, call, mark, retry, done, raised)
    kKey, \* api_key of each call
    kPrev, \* key of the attempt that was rate limited, -1 when none
    kRetries, \* recursive analyze_text calls made by each caller
    updStatus, \* status record of each job in each backend
    updCall, \* the last update_job_status call: backend, job, whether the job existed, how the call ended
    auKeys, \* api_keys records in Redis: absent, active with or without permissions, expired
    auJobs, \* number of jobs whose status, data, client and type records were written
    auLast, \* the last analyze request: its header, why authentication failed, the answer, whether a job was written
    cnPc, \* position of connect_with_retry of each backend (connecting, connected, gave_up)
    cnRetries, \* failed attempts of each backend so far
    cnDelay, \* current_delay of the Redis manager, in 1/128 s
    cnSleeps, \* the delays each backend has slept, in 1/128 s, oldest first
    tRedis, \* remaining TTL of the key in Redis, -2 when the key is not there
    tPg, \* remaining TTL of the key in cache_data, -2 when the row is not there
    tCall, \* the last ttl(k) call: whether the key was in the durable tier only, its durable TTL, how the call ended, what it returned
    inStatus, \* job:{id}:status of each ingested job, none while the key is absent
    inKeys, \* which of job:{id}:client, :data, :type are set
    inApi, \* position of store_job_data for each job
    inW, \* the poll-loop worker: position, job held, what get returned for data and type
    inError, \* job:{id}:error
    czPc, \* configured chunker: position in the constructor and chunk_text
    czCfg, \* self.chunk_size and self.chunk_overlap after the constructor
    czText, \* the text given to chunk_text
    czStart, \* start of the current pass of the loop
    czPrev, \* start of the previous pass, -1 before the first
    tnCreator, \* the client whose request created each job, 0 before it exists
    tnClientKey, \* job:{id}:client, 0 while the key is absent
    tnStatus, \* job:{id}:status, none while the key is absent
    tnLast \* the last status or results request and its answer

vars == <<now, status, lockExpires, errorMsg, resultsBy, queue, swPc, swRows,
          swIdx, returnedBy, wPc, wJob, wSeen, claimRes, claimExp, claimBase,
          lastWriter, hook, sfClock, last_timestamp, sequence, sfLock, sfPc,
          current_timestamp, sfPrev, sfId, rlNow, rlSet, rlPc, rlClient, rlAt,
          rlAdmitted, rlCalls, cRedis, cPg, cPc, cVal, cRepop, cLastWrite,
          cDeleted, ctrRedis, ctrPg, ctrTasks,
          ckPc, ckText, ckStart, ckChunks, ckBreaks,
          emPc, emDoc, emChunks, emStart, emAll, emFailed, emResults, emSkipped, emPoints, emNextId, emStores, emStatus,
          shPc, shJob, shStatus,
          kLimited, kRedisOk, kPc, kKey, kPrev, kRetries,
          updStatus, updCall,
          auKeys, auJobs, auLast,
          cnPc, cnRetries, cnDelay, cnSleeps,
          tRedis, tPg, tCall,
          inStatus, inKeys, inApi, inW, inError,
          czPc, czCfg, czText, czStart, czPrev,
          tnCreator, tnClientKey, tnStatus, tnLast>>

storeVars == <<status, lockExpires, errorMsg, resultsBy>>
sweepVars == <<swPc, swRows, swIdx, returnedBy>>
workerVars == <<wPc, wJob, wSeen>>
claimVars == <<claimRes, claimExp, claimBase>>
jobVars == <<now, storeVars, queue, sweepVars, workerVars, claimVars, lastWriter>>
sfVars == <<sfClock, last_timestamp, sequence, sfLock, sfPc, current_timestamp,
            sfPrev, sfId>>
rlVars == <<rlNow, rlSet, rlPc, rlClient, rlAt, rlAdmitted, rlCalls>>
cacheVars == <<cRedis, cPg, cPc, cVal, cRepop, cLastWrite, cDeleted>>
ctrVars == <<ctrRedis, ctrPg, ctrTasks>>
chunkVars == <<ckPc, ckText, ckStart, ckChunks, ckBreaks>>
embVars == <<emPc, emDoc, emChunks, emStart, emAll, emFailed, emResults, emSkipped, emPoints, emNextId, emStores, emStatus>>
shutVars == <<shPc, shJob, shStatus>>
keyVars == <<kLimited, kRedisOk, kPc, kKey, kPrev, kRetries>>
updVars == <<updStatus, updCall>>
authVars == <<auKeys, auJobs, auLast>>
connVars == <<cnPc, cnRetries, cnDelay, cnSleeps>>
ttlVars == <<tRedis, tPg, tCall>>
ingVars == <<inStatus, inKeys, inApi, inW, inError>>
cfgVars == <<czPc, czCfg, czText, czStart, czPrev>>
tenantVars == <<tnCreator, tnClientKey, tnStatus, tnLast>>
svcVars == <<ctrVars, chunkVars, embVars, shutVars, keyVars, updVars, authVars, connVars, ttlVars, ingVars, cfgVars, tenantVars>>
exceptCtr == <<jobVars, hook, sfVars, rlVars, cacheVars, chunkVars, embVars, shutVars, keyVars, updVars, authVars, connVars, ttlVars, ingVars, cfgVars, tenantVars>>
exceptChunk == <<jobVars, hook, sfVars, rlVars, cacheVars, ctrVars, embVars, shutVars, keyVars, updVars, authVars, connVars, ttlVars, ingVars, cfgVars, tenantVars>>
exceptEmb == <<jobVars, hook, sfVars, rlVars, cacheVars, ctrVars, chunkVars, shutVars, keyVars, updVars, authVars, connVars, ttlVars, ingVars, cfgVars, tenantVars>>
exceptShut == <<jobVars, hook, sfVars, rlVars, cacheVars, ctrVars, chunkVars, embVars, keyVars, updVars, authVars, connVars, ttlVars, ingVars, cfgVars, tenantVars>>
exceptKey == <<jobVars, hook, sfVars, rlVars, cacheVars, ctrVars, chunkVars, embVars, shutVars, updVars, authVars, connVars, ttlVars, ingVars, cfgVars, tenantVars>>
exceptUpd == <<jobVars, hook, sfVars, rlVars, cacheVars, ctrVars, chunkVars, embVars, shutVars, keyVars, authVars, connVars, ttlVars, ingVars, cfgVars, tenantVars>>
exceptAuth == <<jobVars, hook, sfVars, rlVars, cacheVars, ctrVars, chunkVars, embVars, shutVars, keyVars, updVars, connVars, ttlVars, ingVars, cfgVars, tenantVars>>
exceptConn == <<jobVars, hook, sfVars, rlVars, cacheVars, ctrVars, chunkVars, embVars, shutVars, keyVars, updVars, authVars, ttlVars, ingVars, cfgVars, tenantVars>>
exceptTtl == <<jobVars, hook, sfVars, rlVars, cacheVars, ctrVars, chunkVars, embVars, shutVars, keyVars, updVars, authVars, connVars, ingVars, cfgVars, tenantVars>>
exceptIng == <<jobVars, hook, sfVars, rlVars, cacheVars, ctrVars, chunkVars, embVars, shutVars, keyVars, updVars, authVars, connVars, ttlVars, cfgVars, tenantVars>>
exceptCfg == <<jobVars, hook, sfVars, rlVars, cacheVars, ctrVars, chunkVars, embVars, shutVars, keyVars, updVars, authVars, connVars, ttlVars, ingVars, tenantVars>>
exceptTenant == <<jobVars, hook, sfVars, rlVars, cacheVars, ctrVars, chunkVars, embVars, shutVars, keyVars, updVars, authVars, connVars, ttlVars, ingVars, cfgVars>>
coreVars == <<sfVars, rlVars, cacheVars, svcVars>>

(* ------------------------------ helpers -------------------------------- *)
RECURSIVE SortedSeq(_)
SortedSeq(S) ==
    IF S = {} THEN <<>>
    ELSE LET m == CHOOSE x \in S : \A y \in S : x <= y
         IN <<m>> \o SortedSeq(S \ {m})

Take(seq, n) == SubSeq(seq, 1, IF Len(seq) < n THEN Len(seq) ELSE n)

SeqRange(seq) == {seq[i] : i \in 1..Len(seq)}

(* ----------------------------- initial state --------------------------- *)
IdleSweeps ==
    /\ swPc = [s \in Sweeps |-> "idle"]
    /\ swRows = [s \in Sweeps |-> <<>>]
    /\ swIdx = [s \in Sweeps |-> 1]
    /\ returnedBy = [j \in Jobs |-> {}]

IdleWorkers ==
    /\ wPc = [w \in Workers |-> "idle"]
    /\ wJob = [w \in Workers |-> 0]
    /\ wSeen = [w \in Workers |-> "none"]

NoClaims ==
    /\ claimRes = [w \in Workers |-> [j \in Jobs |-> "none"]]
    /\ claimExp = [w \in Workers |-> [j \in Jobs |-> 0]]
    /\ claimBase = [j \in Jobs |-> "none"]

EmptyStore ==
    /\ now = 0
    /\ lockExpires = [j \in Jobs |-> 0]
    /\ errorMsg = [j \in Jobs |-> ""]
    /\ resultsBy = [j \in Jobs |-> {}]
    /\ queue = [j \in Jobs |-> 0]
    /\ lastWriter = [j \in Jobs |-> "none"]

\* SnowflakeID.__init__: sequence = 0, last_timestamp = -1, lock free
IdleSnowflake ==
    /\ sfClock = 0
    /\ last_timestamp = -1
    /\ sequence = 0
    /\ sfLock = 0
    /\ sfPc = [t \in Threads |-> "idle"]
    /\ current_timestamp = [t \in Threads |-> 0]
    /\ sfPrev = -2
    /\ sfId = -1

\* no rate key exists, no request is being handled
IdleRateLimit ==
    /\ rlNow = 0
    /\ rlSet = [c \in Clients |-> [b \in Buckets |-> {}]]
    /\ rlPc = [h \in Handlers |-> "idle"]
    /\ rlClient = [h \in Handlers |-> 0]
    /\ rlAt = [h \in Handlers |-> 0]
    /\ rlAdmitted = [c \in Clients |-> 0]
    /\ rlCalls = 0

\* the key is in neither tier, no call is in flight
IdleCache ==
    /\ cRedis = 0
    /\ cPg = 0
    /\ cPc = [c \in Callers |-> "idle"]
    /\ cVal = [c \in Callers |-> 0]
    /\ cRepop = {}
    /\ cLastWrite = 0
    /\ cDeleted = FALSE

\* the counter key has not been incremented
IdleCounter ==
    /\ ctrRedis = 0
    /\ ctrPg = 0
    /\ ctrTasks = {}

\* chunk_text has not been called
IdleChunker ==
    /\ ckPc = "idle"
    /\ ckText = <<>>
    /\ ckStart = 0
    /\ ckChunks = <<>>
    /\ ckBreaks = <<>>

\* the embedding task has not started
IdleEmbedding ==
    /\ emPc = "idle"
    /\ emDoc = 0
    /\ emChunks = 0
    /\ emStart = 0
    /\ emAll = <<>>
    /\ emFailed = {}
    /\ emResults = <<>>
    /\ emSkipped = {}
    /\ emPoints = {}
    /\ emNextId = 0
    /\ emStores = 0
    /\ emStatus = "pending"

\* the worker polls and no job has been submitted
IdleShutdown ==
    /\ shPc = "polling"
    /\ shJob = 0
    /\ shStatus = [j \in 1..NumPolledJobs |-> "absent"]

\* no key is flagged and no analyze_text call is running
IdleKeys ==
    /\ kLimited = {}
    /\ kRedisOk = TRUE
    /\ kPc = [u \in 1..NumKeyUsers |-> "idle"]
    /\ kKey = [u \in 1..NumKeyUsers |-> -1]
    /\ kPrev = [u \in 1..NumKeyUsers |-> -1]
    /\ kRetries = [u \in 1..NumKeyUsers |-> 0]

\* no job exists in any backend and update_job_status has not been called
IdleUpdate ==
    /\ updStatus = [b \in {"redis", "postgres", "qdrant"} |-> [j \in Jobs |-> "absent"]]
    /\ updCall = [backend |-> "none", job |-> 0, existed |-> TRUE, ended |-> "none"]

\* no API key has been generated and no request has been made
IdleAuth ==
    /\ auKeys = [k \in 1..NumApiKeys |-> "absent"]
    /\ auJobs = 0
    /\ auLast = [header |-> NoHeader, failure |-> "none", code |-> 0, created |-> FALSE]

\* every backend is about to make its first connection attempt
IdleConn ==
    /\ cnPc = [b \in {"redis", "postgres", "qdrant"} |-> "connecting"]
    /\ cnRetries = [b \in {"redis", "postgres", "qdrant"} |-> 0]
    /\ cnDelay = RedisInitialDelay * 128
    /\ cnSleeps = [b \in {"redis", "postgres", "qdrant"} |-> <<>>]

\* the key is in neither tier and ttl has not been called
IdleTtl ==
    /\ tRedis = NoSuchKey
    /\ tPg = NoSuchKey
    /\ tCall = [durableOnly |-> FALSE, durableTtl |-> NoSuchKey,
                ended |-> "none", ttl |-> NoSuchKey]

IdleIngest ==
    /\ inStatus = [j \in Jobs |-> "none"]
    /\ inKeys = [j \in Jobs |-> {}]
    /\ inApi = [j \in Jobs |-> "idle"]
    /\ inW = [pc |-> "idle", job |-> 1, data |-> FALSE, type |-> FALSE]
    /\ inError = [j \in Jobs |-> "none"]

IdleConfigured ==
    /\ czPc = "new"
    /\ czCfg = [chunk_size |-> ChunkSize, chunk_overlap |-> ChunkOverlap]
    /\ czText = <<>>
    /\ czStart = 0
    /\ czPrev = -1

IdleTenant ==
    /\ tnCreator = [j \in Jobs |-> NoClient]
    /\ tnClientKey = [j \in Jobs |-> NoClient]
    /\ tnStatus = [j \in Jobs |-> "none"]
    /\ tnLast = [kind |-> "none", client |-> NoClient, job |-> 1, code |-> 0,
                 disclosed |-> {}]

IdleServices ==
    /\ IdleCounter
    /\ IdleChunker
    /\ IdleEmbedding
    /\ IdleShutdown
    /\ IdleKeys
    /\ IdleUpdate
    /\ IdleAuth
    /\ IdleConn
    /\ IdleTtl
    /\ IdleIngest
    /\ IdleConfigured
    /\ IdleTenant

IdleCore ==
    /\ hook = [j \in Jobs |-> "none"]
    /\ IdleSnowflake /\ IdleRateLimit /\ IdleCache
    /\ IdleServices

\* no job exists and no sweep or worker runs
IdleJobs ==
    /\ status = [j \in Jobs |-> "absent"]
    /\ EmptyStore /\ IdleSweeps /\ IdleWorkers /\ NoClaims

\* processed_files rows are inserted by the ingesting service with status
\* 'pending_analysis'; a row that does not exist yet can be made by create_job
InitPgRepo ==
    /\ status \in [Jobs -> {"absent", "pending_analysis"}]
    /\ EmptyStore /\ IdleSweeps /\ IdleWorkers /\ NoClaims /\ IdleCore

(* ------------------------------- clock --------------------------------- *)
Tick ==
    /\ now < MaxTime
    /\ now' = now + 1
    /\ UNCHANGED <<storeVars, queue, sweepVars, workerVars, claimVars, lastWriter>>
    /\ UNCHANGED <<hook, coreVars>>

(* ----------------------- PostgresRepository ---------------------------- *)
\* update_job_status: UPDATE ... SET status = $1, updated_at = NOW() WHERE id = $2
\* (no row matches an absent id; expires_at is not in the SET list)
PgUpdateJobStatus(st, j, s) ==
    IF st[j] = "absent" THEN st ELSE [st EXCEPT ![j] = s]

\* create_job: INSERT ... VALUES (..., 'pending', ..., expires_at)
\*             ON CONFLICT (id) DO UPDATE SET status = 'pending', expires_at = ...
PgCreateJob(j) ==
    /\ status[j] = "absent"
    /\ status' = [status EXCEPT ![j] = "pending"]
    /\ lockExpires' = [lockExpires EXCEPT ![j] = now + JobExpiration]
    /\ lastWriter' = [lastWriter EXCEPT ![j] = "ingest"]
    /\ UNCHANGED <<now, errorMsg, resultsBy, queue, sweepVars, workerVars, claimVars>>
    /\ UNCHANGED <<hook, coreVars>>

\* a claim condition that would also take over a job being processed
PgClaimableWhileProcessing(s) == s \in {"pending", "processing"}

\* a claim condition that would also accept a job the sweep has scheduled
PgClaimableWhenScheduled(s) == s \in {"pending", "scheduled"}

\* claim_job: "Only claim if job is in 'pending' status"
PgClaimable(s) == s = "pending"

\* claim_job: one transaction; SELECT status ... FOR UPDATE holds the row lock
\* until the conditional UPDATE has committed
PgClaimJob(w, j) ==
    /\ wPc[w] = "idle"
    /\ claimRes[w][j] = "none"
    /\ claimBase' = [claimBase EXCEPT ![j] = IF @ = "none" THEN status[j] ELSE @]
    /\ IF PgClaimable(status[j])
       THEN /\ status' = [status EXCEPT ![j] = "processing"]
            /\ lockExpires' = [lockExpires EXCEPT ![j] = now + ClaimTtl]
            /\ claimRes' = [claimRes EXCEPT ![w][j] = "true"]
            /\ claimExp' = [claimExp EXCEPT ![w][j] = now + ClaimTtl]
            /\ lastWriter' = [lastWriter EXCEPT ![j] = "claim"]
       ELSE /\ claimRes' = [claimRes EXCEPT ![w][j] = "false"]
            /\ UNCHANGED <<status, lockExpires, claimExp, lastWriter>>
    /\ UNCHANGED <<now, errorMsg, resultsBy, queue, sweepVars, workerVars>>
    /\ UNCHANGED <<hook, coreVars>>

\* the worker whose claim succeeded reports the job done
PgHolderComplete(w, j) ==
    /\ wPc[w] = "idle"
    /\ claimRes[w][j] = "true"
    /\ status[j] = "processing"
    /\ status' = PgUpdateJobStatus(status, j, "completed")
    /\ lastWriter' = [lastWriter EXCEPT ![j] = "worker"]
    /\ UNCHANGED <<now, lockExpires, errorMsg, resultsBy, queue, sweepVars,
                   workerVars, claimVars>>
    /\ UNCHANGED <<hook, coreVars>>

\* get_pending_jobs: SELECT ... WHERE status = 'pending_analysis'
\*                   ORDER BY created_at ASC LIMIT 4
PgPendingRows(st) ==
    Take(SortedSeq({j \in Jobs : st[j] = "pending_analysis"}), PgLimit)

PgSelectPending(s) ==
    /\ swPc[s] = "idle"
    /\ swRows' = [swRows EXCEPT ![s] = PgPendingRows(status)]
    /\ swIdx' = [swIdx EXCEPT ![s] = 1]
    /\ swPc' = [swPc EXCEPT ![s] =
                  IF PgPendingRows(status) = <<>> THEN "returned" ELSE "marking"]
    /\ UNCHANGED <<now, storeVars, queue, returnedBy, workerVars, claimVars, lastWriter>>
    /\ UNCHANGED <<hook, coreVars>>

\* get_pending_jobs, loop body: pending_jobs.append(...);
\*                              await self.update_job_status(id, "scheduled", None)
PgMarkScheduled(s) ==
    /\ swPc[s] = "marking"
    /\ LET j == swRows[s][swIdx[s]]
           last == swIdx[s] = Len(swRows[s])
       IN /\ status' = PgUpdateJobStatus(status, j, "scheduled")
          /\ lastWriter' = [lastWriter EXCEPT ![j] = "scheduler"]
          /\ swIdx' = [swIdx EXCEPT ![s] = IF last THEN 1 ELSE @ + 1]
          /\ swPc' = [swPc EXCEPT ![s] = IF last THEN "returned" ELSE "marking"]
          /\ returnedBy' = IF last
                           THEN [k \in Jobs |-> IF k \in SeqRange(swRows[s])
                                                THEN returnedBy[k] \cup {s}
                                                ELSE returnedBy[k]]
                           ELSE returnedBy
    /\ UNCHANGED <<now, lockExpires, errorMsg, resultsBy, queue, swRows,
                   workerVars, claimVars>>
    /\ UNCHANGED <<hook, coreVars>>

\* the caller of get_pending_jobs has its list and the sweep is over
SweepReturn(s) ==
    /\ swPc[s] = "returned"
    /\ swPc' = [swPc EXCEPT ![s] = "idle"]
    /\ swRows' = [swRows EXCEPT ![s] = <<>>]
    /\ swIdx' = [swIdx EXCEPT ![s] = 1]
    /\ UNCHANGED <<now, storeVars, queue, returnedBy, workerVars, claimVars, lastWriter>>
    /\ UNCHANGED <<hook, coreVars>>

NextPgRepo ==
    \/ Tick
    \/ \E j \in Jobs : PgCreateJob(j)
    \/ \E w \in Workers, j \in Jobs : PgClaimJob(w, j)
    \/ \E w \in Workers, j \in Jobs : PgHolderComplete(w, j)
    \/ \E s \in Sweeps : PgSelectPending(s)
    \/ \E s \in Sweeps : PgMarkScheduled(s)
    \/ \E s \in Sweeps : SweepReturn(s)

SpecPgRepo == InitPgRepo /\ [][NextPgRepo]_vars

\* the clock advances and the periodic sweep keeps running (celery beat fires
\* the sweep task every period); a worker that crashed takes no further step
SpecPgSweeping ==
    /\ SpecPgRepo
    /\ WF_vars(Tick)
    /\ \A s \in Sweeps : /\ WF_vars(PgSelectPending(s))
                         /\ WF_vars(PgMarkScheduled(s))
                         /\ WF_vars(SweepReturn(s))

(* -------------------------- MilvusRepository --------------------------- *)
\* the points of the source collections are ingested with analysis_status "pending"
InitMilvusRepo ==
    /\ status = [j \in Jobs |-> "pending"]
    /\ EmptyStore /\ IdleSweeps /\ IdleWorkers /\ NoClaims /\ IdleCore

\* get_pending_jobs: collections = await milvus_client.get_collections()
MilvusSweepStart(s) ==
    /\ swPc[s] = "idle"
    /\ swPc' = [swPc EXCEPT ![s] = "m_scroll"]
    /\ swRows' = [swRows EXCEPT ![s] = <<>>]
    /\ swIdx' = [swIdx EXCEPT ![s] = 1]
    /\ UNCHANGED <<now, storeVars, queue, returnedBy, workerVars, claimVars, lastWriter>>
    /\ UNCHANGED <<hook, coreVars>>

\* scroll(collection, 'analysis_status == "pending"', limit=10)
MilvusPendingRows(st, o) ==
    Take(SortedSeq({j \in Jobs : OwnerOf(j) = o /\ st[j] = "pending"}), MilvusLimit)

\* get_pending_jobs, first loop: one scroll per source collection
MilvusScroll(s) ==
    /\ swPc[s] = "m_scroll"
    /\ swRows' = [swRows EXCEPT ![s] = @ \o MilvusPendingRows(status, swIdx[s])]
    /\ swIdx' = [swIdx EXCEPT ![s] = IF @ = NumOwners THEN 1 ELSE @ + 1]
    /\ swPc' = [swPc EXCEPT ![s] = IF swIdx[s] = NumOwners THEN "m_mark" ELSE "m_scroll"]
    /\ UNCHANGED <<now, storeVars, queue, returnedBy, workerVars, claimVars, lastWriter>>
    /\ UNCHANGED <<hook, coreVars>>

\* set_payload(collection, {"analysis_status": s, ...}, points): an upsert of the
\* named points, whatever their current payload
MilvusSetStatus(st, points, s) ==
    [j \in Jobs |-> IF j \in points THEN s ELSE st[j]]

\* get_pending_jobs, second loop: one set_payload("scheduled") per collection
\* that had candidates; after the last one the list is returned
MilvusMark(s) ==
    /\ swPc[s] = "m_mark"
    /\ LET ids == {j \in SeqRange(swRows[s]) : OwnerOf(j) = swIdx[s]}
           last == swIdx[s] = NumOwners
       IN /\ status' = MilvusSetStatus(status, ids, "scheduled")
          /\ lastWriter' = [j \in Jobs |-> IF j \in ids THEN "scheduler" ELSE lastWriter[j]]
          /\ swIdx' = [swIdx EXCEPT ![s] = IF last THEN 1 ELSE @ + 1]
          /\ swPc' = [swPc EXCEPT ![s] = IF last THEN "returned" ELSE "m_mark"]
          /\ returnedBy' = IF last
                           THEN [k \in Jobs |-> IF k \in SeqRange(swRows[s])
                                                THEN returnedBy[k] \cup {s}
                                                ELSE returnedBy[k]]
                           ELSE returnedBy
    /\ UNCHANGED <<now, lockExpires, errorMsg, resultsBy, queue, swRows,
                   workerVars, claimVars>>
    /\ UNCHANGED <<hook, coreVars>>

\* claim_job: results = await milvus_client.retrieve(...);
\*            current_status = results[0]["payload"].get("analysis_status")
MilvusClaimRetrieve(w, j) ==
    /\ wPc[w] = "idle"
    /\ claimRes[w][j] = "none"
    /\ wPc' = [wPc EXCEPT ![w] = "claim_read"]
    /\ wJob' = [wJob EXCEPT ![w] = j]
    /\ wSeen' = [wSeen EXCEPT ![w] = status[j]]
    /\ claimBase' = [claimBase EXCEPT ![j] = IF @ = "none" THEN status[j] ELSE @]
    /\ UNCHANGED <<now, storeVars, queue, sweepVars, claimRes, claimExp, lastWriter>>
    /\ UNCHANGED <<hook, coreVars>>

\* claim_job: "Only claim if the job is in 'pending' status", decided on the
\* status that retrieve returned
MilvusClaimable(seen) == seen = "pending"

\* claim_job: if current_status != "pending": return False
\*            success = await milvus_client.set_payload({"analysis_status":
\*                "processing", "lock_expires_at": now + ttl, ...}); return success
MilvusClaimSet(w) ==
    /\ wPc[w] = "claim_read"
    /\ LET j == wJob[w]
       IN IF MilvusClaimable(wSeen[w])
          THEN /\ status' = MilvusSetStatus(status, {j}, "processing")
               /\ lockExpires' = [lockExpires EXCEPT ![j] = now + ClaimTtl]
               /\ claimRes' = [claimRes EXCEPT ![w][j] = "true"]
               /\ claimExp' = [claimExp EXCEPT ![w][j] = now + ClaimTtl]
               /\ lastWriter' = [lastWriter EXCEPT ![j] = "claim"]
          ELSE /\ claimRes' = [claimRes EXCEPT ![w][j] = "false"]
               /\ UNCHANGED <<status, lockExpires, claimExp, lastWriter>>
    /\ wPc' = [wPc EXCEPT ![w] = "idle"]
    /\ wJob' = [wJob EXCEPT ![w] = 0]
    /\ wSeen' = [wSeen EXCEPT ![w] = "none"]
    /\ UNCHANGED <<now, errorMsg, resultsBy, queue, sweepVars, claimBase>>
    /\ UNCHANGED <<hook, coreVars>>

\* update_job_status: retrieve the point, then
\* set_payload({"analysis_status": status, "lastAnalysisUpdate": ...}); the lock
\* fields are not part of the payload written.  Called by the worker whose claim
\* succeeded, once the job is done.
MilvusHolderComplete(w, j) ==
    /\ wPc[w] = "idle"
    /\ claimRes[w][j] = "true"
    /\ status[j] = "processing"
    /\ status' = MilvusSetStatus(status, {j}, "completed")
    /\ lastWriter' = [lastWriter EXCEPT ![j] = "worker"]
    /\ UNCHANGED <<now, lockExpires, errorMsg, resultsBy, queue, sweepVars,
                   workerVars, claimVars>>
    /\ UNCHANGED <<hook, coreVars>>

\* the sweep of the source collections
NextMilvusSweep ==
    \/ \E s \in Sweeps : MilvusSweepStart(s)
    \/ \E s \in Sweeps : MilvusScroll(s)
    \/ \E s \in Sweeps : MilvusMark(s)
    \/ \E s \in Sweeps : SweepReturn(s)

SpecMilvusSweep == InitMilvusRepo /\ [][NextMilvusSweep]_vars

\* the claim path, with the clock that the lock expiry is measured against
NextMilvusRepo ==
    \/ Tick
    \/ \E w \in Workers, j \in Jobs : MilvusClaimRetrieve(w, j)
    \/ \E w \in Workers : MilvusClaimSet(w)
    \/ \E w \in Workers, j \in Jobs : MilvusHolderComplete(w, j)

SpecMilvusRepo == InitMilvusRepo /\ [][NextMilvusRepo]_vars

(* ---------------------------- broker tasks ----------------------------- *)
\* a worker process receives a task of the queue; its argument names the job
TaskDeliver(w, j) ==
    /\ wPc[w] = "idle"
    /\ queue[j] > 0
    /\ queue' = [queue EXCEPT ![j] = @ - 1]
    /\ wPc' = [wPc EXCEPT ![w] = "read"]
    /\ wJob' = [wJob EXCEPT ![w] = j]
    /\ UNCHANGED <<now, storeVars, sweepVars, wSeen, claimVars, lastWriter>>
    /\ UNCHANGED <<hook, coreVars>>

\* the handler of worker w has returned or raised
WorkerIdle(w) ==
    /\ wPc' = [wPc EXCEPT ![w] = "idle"]
    /\ wJob' = [wJob EXCEPT ![w] = 0]
    /\ wSeen' = [wSeen EXCEPT ![w] = "none"]

\* the loop "for job_data in pending_jobs" of sweep s moves to its next
\* candidate, or the sweep ends
SweepNext(s) ==
    IF swIdx[s] >= Len(swRows[s])
    THEN /\ swPc' = [swPc EXCEPT ![s] = "idle"]
         /\ swRows' = [swRows EXCEPT ![s] = <<>>]
         /\ swIdx' = [swIdx EXCEPT ![s] = 1]
    ELSE /\ swPc' = [swPc EXCEPT ![s] = "enqueue"]
         /\ swRows' = swRows
         /\ swIdx' = [swIdx EXCEPT ![s] = @ + 1]

\* the status written when scheduling raises: f"error: {str(e)}"
SchedulingErrorStatus == "error: send_task failed"

\* the status written when the embedding task raises: f"error: {str(e)}"
ProcessingErrorStatus == "error: processing failed"

(* ------------- file pipeline: EmbeddingFileProcessor on Postgres ------- *)
InitFile ==
    /\ status = [j \in Jobs |-> "pending_analysis"]
    /\ EmptyStore /\ IdleSweeps /\ IdleWorkers /\ NoClaims /\ IdleCore

\* schedule_task: "if not pending_jobs: return []", else the loop starts
FileScheduleLoop(s) ==
    /\ swPc[s] = "returned"
    /\ IF swRows[s] = <<>>
       THEN /\ swPc' = [swPc EXCEPT ![s] = "idle"]
       ELSE /\ swPc' = [swPc EXCEPT ![s] = "enqueue"]
    /\ UNCHANGED <<now, storeVars, queue, swRows, swIdx, returnedBy, workerVars,
                   claimVars, lastWriter>>
    /\ UNCHANGED <<hook, coreVars>>

\* schedule_task: celery.send_task(self.task_name, kwargs={"job_data": ...},
\*                                 task_id=job_id)
FileSendTask(s) ==
    /\ swPc[s] = "enqueue"
    /\ LET j == swRows[s][swIdx[s]]
       IN /\ queue[j] < MaxQueue
          /\ queue' = [queue EXCEPT ![j] = @ + 1]
    /\ SweepNext(s)
    /\ UNCHANGED <<now, storeVars, returnedBy, workerVars, claimVars, lastWriter>>
    /\ UNCHANGED <<hook, coreVars>>

\* schedule_task: send_task raises;
\*   await self.source_repository.update_job_status(job_id, f"error: {str(e)}", owner)
FileSendTaskFails(s) ==
    /\ swPc[s] = "enqueue"
    /\ LET j == swRows[s][swIdx[s]]
       IN /\ status' = PgUpdateJobStatus(status, j, SchedulingErrorStatus)
          /\ lastWriter' = [lastWriter EXCEPT ![j] = "scheduler"]
    /\ SweepNext(s)
    /\ UNCHANGED <<now, lockExpires, errorMsg, resultsBy, queue, returnedBy,
                   workerVars, claimVars>>
    /\ UNCHANGED <<hook, coreVars>>

\* do_embedding: job_data_json = await self.source_repository.get_job_data(...)
\* the row read carries the status column
FileGetJobData(w) ==
    /\ wPc[w] = "read"
    /\ wSeen' = [wSeen EXCEPT ![w] = status[wJob[w]]]
    /\ wPc' = [wPc EXCEPT ![w] = "embed"]
    /\ UNCHANGED <<now, storeVars, queue, sweepVars, wJob, claimVars, lastWriter>>
    /\ UNCHANGED <<hook, coreVars>>

\* store_job_error: UPDATE ... SET error_message = $1, status = 'failed' WHERE id = $2
PgStoreJobError(st, j) == IF st[j] = "absent" THEN st ELSE [st EXCEPT ![j] = "failed"]

\* start_embedding: the file type is not supported, or download_file fails:
\*   await self.source_repository.store_job_error(job_id, msg); raise ValueError
FileRejected(w) ==
    /\ wPc[w] = "embed"
    /\ \E msg \in {"File type is not supported.", "File could not be downloaded"} :
         LET j == wJob[w]
         IN /\ status' = PgStoreJobError(status, j)
            /\ errorMsg' = [errorMsg EXCEPT ![j] = msg]
            /\ lastWriter' = [lastWriter EXCEPT ![j] = "worker"]
    /\ WorkerIdle(w)
    /\ UNCHANGED <<now, lockExpires, resultsBy, queue, sweepVars, claimVars>>
    /\ UNCHANGED <<hook, coreVars>>

\* send_embedding: if job_status and job_status != "scheduled": raise ValueError
FileStatusAccepted(seen) == seen = "scheduled"

\* send_embedding: the status check, then the text is converted and embedded
FileSendEmbedding(w) ==
    /\ wPc[w] = "embed"
    /\ IF FileStatusAccepted(wSeen[w])
       THEN /\ wPc' = [wPc EXCEPT ![w] = "store"]
            /\ UNCHANGED <<wJob, wSeen>>
       ELSE WorkerIdle(w)
    /\ UNCHANGED <<now, storeVars, queue, sweepVars, claimVars, lastWriter>>
    /\ UNCHANGED <<hook, coreVars>>

\* send_embedding: the size limit, convert_to_text or embedding_text raises; the
\* exception leaves do_embedding, which has no handler that writes a status
FileEmbeddingFails(w) ==
    /\ wPc[w] = "embed"
    /\ FileStatusAccepted(wSeen[w])
    /\ WorkerIdle(w)
    /\ UNCHANGED <<now, storeVars, queue, sweepVars, claimVars, lastWriter>>
    /\ UNCHANGED <<hook, coreVars>>

\* do_embedding: async with MilvusRepository() as milvus:
\*                   await milvus.store_job_results(job_id, results, owner)
FileStoreResults(w) ==
    /\ wPc[w] = "store"
    /\ resultsBy' = [resultsBy EXCEPT ![wJob[w]] = @ \cup {w}]
    /\ wPc' = [wPc EXCEPT ![w] = "complete"]
    /\ UNCHANGED <<now, status, lockExpires, errorMsg, queue, sweepVars, wJob,
                   wSeen, claimVars, lastWriter>>
    /\ UNCHANGED <<hook, coreVars>>

\* do_embedding: await self.source_repository.update_job_status(job_id, "completed", owner)
FileComplete(w) ==
    /\ wPc[w] = "complete"
    /\ status' = PgUpdateJobStatus(status, wJob[w], "completed")
    /\ lastWriter' = [lastWriter EXCEPT ![wJob[w]] = "worker"]
    /\ WorkerIdle(w)
    /\ UNCHANGED <<now, lockExpires, errorMsg, resultsBy, queue, sweepVars, claimVars>>
    /\ UNCHANGED <<hook, coreVars>>

NextFile ==
    \/ \E s \in Sweeps : PgSelectPending(s)
    \/ \E s \in Sweeps : PgMarkScheduled(s)
    \/ \E s \in Sweeps : FileScheduleLoop(s)
    \/ \E s \in Sweeps : FileSendTask(s)
    \/ \E s \in Sweeps : FileSendTaskFails(s)
    \/ \E w \in Workers, j \in Jobs : TaskDeliver(w, j)
    \/ \E w \in Workers : FileGetJobData(w)
    \/ \E w \in Workers : FileRejected(w)
    \/ \E w \in Workers : FileSendEmbedding(w)
    \/ \E w \in Workers : FileEmbeddingFails(w)
    \/ \E w \in Workers : FileStoreResults(w)
    \/ \E w \in Workers : FileComplete(w)

SpecFile == InitFile /\ [][NextFile]_vars

(* ------------- store_job_error of the three repositories --------------- *)
\* the messages handed to store_job_error
ErrorMessages == {"File could not be downloaded", "processing failed"}

\* a job in flight when its error is stored
InitStoreError ==
    /\ status \in [Jobs -> {"pending", "scheduled", "processing"}]
    /\ EmptyStore /\ IdleSweeps /\ IdleWorkers /\ NoClaims /\ IdleCore

\* RedisJobRepository.store_job_error:
\*   await redis_client.setex(f"job:{job_id}:error", expiration, error)
\* the key job:{id}:status is not written
RedisStoreJobError(j, msg) ==
    /\ errorMsg' = [errorMsg EXCEPT ![j] = msg]
    /\ lastWriter' = [lastWriter EXCEPT ![j] = "worker"]
    /\ UNCHANGED <<now, status, lockExpires, resultsBy, queue, sweepVars,
                   workerVars, claimVars>>
    /\ UNCHANGED <<hook, coreVars>>

\* QdrantJobRepository.store_job_error: client.search(...) per collection; a
\* search that raises is skipped by the bare except, a hit gets
\*   set_payload(payload={"error": error, "status": "failed"})
\* the payload field analysis_status read by get_job_status is not written
QdrantStoreJobError(j, msg) ==
    /\ \E found \in BOOLEAN :
         errorMsg' = IF found THEN [errorMsg EXCEPT ![j] = msg] ELSE errorMsg
    /\ lastWriter' = [lastWriter EXCEPT ![j] = "worker"]
    /\ UNCHANGED <<now, status, lockExpires, resultsBy, queue, sweepVars,
                   workerVars, claimVars>>
    /\ UNCHANGED <<hook, coreVars>>

\* PostgresRepository.store_job_error:
\*   UPDATE ... SET error_message = $1, status = 'failed' WHERE id = $2
PostgresStoreJobError(j, msg) ==
    /\ status' = PgStoreJobError(status, j)
    /\ errorMsg' = [errorMsg EXCEPT ![j] = msg]
    /\ lastWriter' = [lastWriter EXCEPT ![j] = "worker"]
    /\ UNCHANGED <<now, lockExpires, resultsBy, queue, sweepVars, workerVars,
                   claimVars>>
    /\ UNCHANGED <<hook, coreVars>>

NextStoreError ==
    \/ \E j \in Jobs, msg \in ErrorMessages : RedisStoreJobError(j, msg)
    \/ \E j \in Jobs, msg \in ErrorMessages : QdrantStoreJobError(j, msg)
    \/ \E j \in Jobs, msg \in ErrorMessages : PostgresStoreJobError(j, msg)

SpecStoreError == InitStoreError /\ [][NextStoreError]_vars

(* ------- embedding tasks of tasks_embedding on QdrantJobRepository ----- *)
\* the e-mail points are ingested with analysis_status "pending"
InitQdrant ==
    /\ status = [j \in Jobs |-> "pending"]
    /\ EmptyStore /\ IdleSweeps /\ IdleWorkers /\ NoClaims /\ IdleCore

\* QdrantJobRepository.get_pending_jobs: per collection,
\* scroll(analysis_status = "pending", type = "email", limit=1); no status is written
QdrantPendingRows(st, o) ==
    Take(SortedSeq({j \in Jobs : OwnerOf(j) = o /\ st[j] = "pending"}), QdrantLimit)

RECURSIVE QdrantPendingUpTo(_, _)
QdrantPendingUpTo(st, o) ==
    IF o = 0 THEN <<>> ELSE QdrantPendingUpTo(st, o - 1) \o QdrantPendingRows(st, o)

QdrantPendingJobs(st) == QdrantPendingUpTo(st, NumOwners)

\* QdrantJobRepository.update_job_status: retrieve the point, and if it is there
\* set_payload({"analysis_status": status}) whatever the status it has
QdrantUpdateJobStatus(st, j, s) == [st EXCEPT ![j] = s]

\* get_pending_jobs (task): pending_jobs = await repository.get_pending_jobs();
\* "if not pending_jobs: return []"
QdrantGetPending(s) ==
    /\ swPc[s] = "idle"
    /\ LET rows == QdrantPendingJobs(status)
       IN /\ swRows' = [swRows EXCEPT ![s] = rows]
          /\ swPc' = [swPc EXCEPT ![s] = IF rows = <<>> THEN "idle" ELSE "q_scheduled"]
          /\ returnedBy' = [k \in Jobs |-> IF k \in SeqRange(rows)
                                           THEN returnedBy[k] \cup {s}
                                           ELSE returnedBy[k]]
    /\ swIdx' = [swIdx EXCEPT ![s] = 1]
    /\ UNCHANGED <<now, storeVars, queue, workerVars, claimVars, lastWriter>>
    /\ UNCHANGED <<hook, coreVars>>

\* the loop of sweep s moves to its next candidate, or the sweep ends
QdrantSweepNext(s) ==
    IF swIdx[s] >= Len(swRows[s])
    THEN /\ swPc' = [swPc EXCEPT ![s] = "idle"]
         /\ swRows' = [swRows EXCEPT ![s] = <<>>]
         /\ swIdx' = [swIdx EXCEPT ![s] = 1]
    ELSE /\ swPc' = [swPc EXCEPT ![s] = "q_scheduled"]
         /\ swRows' = swRows
         /\ swIdx' = [swIdx EXCEPT ![s] = @ + 1]

\* await repository.update_job_status(job_id, "scheduled", owner, None)
QdrantMarkScheduled(s) ==
    /\ swPc[s] = "q_scheduled"
    /\ LET j == swRows[s][swIdx[s]]
       IN /\ status' = QdrantUpdateJobStatus(status, j, "scheduled")
          /\ lastWriter' = [lastWriter EXCEPT ![j] = "scheduler"]
    /\ swPc' = [swPc EXCEPT ![s] = "q_enqueue"]
    /\ UNCHANGED <<now, lockExpires, errorMsg, resultsBy, queue, swRows, swIdx,
                   returnedBy, workerVars, claimVars>>
    /\ UNCHANGED <<hook, coreVars>>

\* task = process_embedding.apply_async(args=(job_id, owner), task_id=job_id)
QdrantApplyAsync(s) ==
    /\ swPc[s] = "q_enqueue"
    /\ LET j == swRows[s][swIdx[s]]
       IN /\ queue[j] < MaxQueue
          /\ queue' = [queue EXCEPT ![j] = @ + 1]
    /\ swPc' = [swPc EXCEPT ![s] = "q_processing"]
    /\ UNCHANGED <<now, storeVars, swRows, swIdx, returnedBy, workerVars,
                   claimVars, lastWriter>>
    /\ UNCHANGED <<hook, coreVars>>

\* apply_async raises:
\*   await repository.update_job_status(job_id, f"error: {str(e)}", owner, None)
QdrantApplyAsyncFails(s) ==
    /\ swPc[s] = "q_enqueue"
    /\ LET j == swRows[s][swIdx[s]]
       IN /\ status' = QdrantUpdateJobStatus(status, j, SchedulingErrorStatus)
          /\ lastWriter' = [lastWriter EXCEPT ![j] = "scheduler"]
    /\ QdrantSweepNext(s)
    /\ UNCHANGED <<now, lockExpires, errorMsg, resultsBy, queue, returnedBy,
                   workerVars, claimVars>>
    /\ UNCHANGED <<hook, coreVars>>

\* await repository.update_job_status(job_id, "processing", owner, None)
QdrantMarkProcessing(s) ==
    /\ swPc[s] = "q_processing"
    /\ LET j == swRows[s][swIdx[s]]
       IN /\ status' = QdrantUpdateJobStatus(status, j, "processing")
          /\ lastWriter' = [lastWriter EXCEPT ![j] = "scheduler"]
    /\ QdrantSweepNext(s)
    /\ UNCHANGED <<now, lockExpires, errorMsg, resultsBy, queue, returnedBy,
                   workerVars, claimVars>>
    /\ UNCHANGED <<hook, coreVars>>

\* process_embedding: job_data_json = await repository.get_job_data(job_id, owner)
QdrantGetJobData(w) ==
    /\ wPc[w] = "read"
    /\ wSeen' = [wSeen EXCEPT ![w] = status[wJob[w]]]
    /\ wPc' = [wPc EXCEPT ![w] = "process"]
    /\ UNCHANGED <<now, storeVars, queue, sweepVars, wJob, claimVars, lastWriter>>
    /\ UNCHANGED <<hook, coreVars>>

\* results = await processor.process(job_json, job_id, trace_id, owner)
QdrantProcess(w) ==
    /\ wPc[w] = "process"
    /\ wPc' = [wPc EXCEPT ![w] = "store"]
    /\ UNCHANGED <<now, storeVars, queue, sweepVars, wJob, wSeen, claimVars, lastWriter>>
    /\ UNCHANGED <<hook, coreVars>>

\* except Exception as e:
\*     await repository.update_job_status(job_id, f"error: {str(e)}", owner); raise
QdrantProcessFails(w) ==
    /\ wPc[w] \in {"process", "store"}
    /\ status' = QdrantUpdateJobStatus(status, wJob[w], ProcessingErrorStatus)
    /\ lastWriter' = [lastWriter EXCEPT ![wJob[w]] = "worker"]
    /\ WorkerIdle(w)
    /\ UNCHANGED <<now, lockExpires, errorMsg, resultsBy, queue, sweepVars, claimVars>>
    /\ UNCHANGED <<hook, coreVars>>

\* await repository.store_job_results(job_id, results, owner)
QdrantStoreResults(w) ==
    /\ wPc[w] = "store"
    /\ resultsBy' = [resultsBy EXCEPT ![wJob[w]] = @ \cup {w}]
    /\ wPc' = [wPc EXCEPT ![w] = "complete"]
    /\ UNCHANGED <<now, status, lockExpires, errorMsg, queue, sweepVars, wJob,
                   wSeen, claimVars, lastWriter>>
    /\ UNCHANGED <<hook, coreVars>>

\* await repository.update_job_status(job_id, "completed", owner)
QdrantComplete(w) ==
    /\ wPc[w] = "complete"
    /\ status' = QdrantUpdateJobStatus(status, wJob[w], "completed")
    /\ lastWriter' = [lastWriter EXCEPT ![wJob[w]] = "worker"]
    /\ WorkerIdle(w)
    /\ UNCHANGED <<now, lockExpires, errorMsg, resultsBy, queue, sweepVars, claimVars>>
    /\ UNCHANGED <<hook, coreVars>>

NextQdrant ==
    \/ \E s \in Sweeps : QdrantGetPending(s)
    \/ \E s \in Sweeps : QdrantMarkScheduled(s)
    \/ \E s \in Sweeps : QdrantApplyAsync(s)
    \/ \E s \in Sweeps : QdrantApplyAsyncFails(s)
    \/ \E s \in Sweeps : QdrantMarkProcessing(s)
    \/ \E w \in Workers, j \in Jobs : TaskDeliver(w, j)
    \/ \E w \in Workers : QdrantGetJobData(w)
    \/ \E w \in Workers : QdrantProcess(w)
    \/ \E w \in Workers : QdrantProcessFails(w)
    \/ \E w \in Workers : QdrantStoreResults(w)
    \/ \E w \in Workers : QdrantComplete(w)

SpecQdrant == InitQdrant /\ [][NextQdrant]_vars

(* ------------- poll loop: JobWorker on RedisJobRepository -------------- *)
\* store_job_data: setex(f"job:{job_id}:status", expiration, "pending")
InitKv ==
    /\ status = [j \in Jobs |-> "pending"]
    /\ EmptyStore /\ IdleSweeps /\ IdleWorkers /\ NoClaims /\ IdleCore

\* RedisJobRepository.update_job_status: setex(f"job:{job_id}:status", expiration, status)
KvUpdateJobStatus(st, j, s) == [st EXCEPT ![j] = s]

\* poll_for_jobs: pending_jobs = await self.repository.get_pending_jobs(), the
\* keys job:*:status of all jobs, whatever their status
KvScan(w) ==
    /\ wPc[w] = "idle"
    /\ wPc' = [wPc EXCEPT ![w] = "k_status"]
    /\ wJob' = [wJob EXCEPT ![w] = 1]
    /\ UNCHANGED <<now, storeVars, queue, sweepVars, wSeen, claimVars, lastWriter>>
    /\ UNCHANGED <<hook, coreVars>>

\* the loop "for job_key in pending_jobs" of worker w moves to its next key, or
\* the worker sleeps until its next scan
KvNextKey(w) ==
    IF wJob[w] = NumJobs
    THEN WorkerIdle(w)
    ELSE /\ wPc' = [wPc EXCEPT ![w] = "k_status"]
         /\ wJob' = [wJob EXCEPT ![w] = @ + 1]
         /\ wSeen' = [wSeen EXCEPT ![w] = "none"]

\* poll_for_jobs: 'if status == "pending"'
KvPollable(seen) == seen = "pending"

\* poll_for_jobs: status = await self.repository.get_job_status(job_key, owner)
KvGetStatus(w) ==
    /\ wPc[w] = "k_status"
    /\ IF KvPollable(status[wJob[w]])
       THEN /\ wSeen' = [wSeen EXCEPT ![w] = status[wJob[w]]]
            /\ wPc' = [wPc EXCEPT ![w] = "k_mark"]
            /\ wJob' = wJob
       ELSE KvNextKey(w)
    /\ UNCHANGED <<now, storeVars, queue, sweepVars, claimVars, lastWriter>>
    /\ UNCHANGED <<hook, coreVars>>

\* poll_for_jobs: await self.repository.update_job_status(job_id, "processing", owner, 60*60*24)
KvMarkProcessing(w) ==
    /\ wPc[w] = "k_mark"
    /\ status' = KvUpdateJobStatus(status, wJob[w], "processing")
    /\ lastWriter' = [lastWriter EXCEPT ![wJob[w]] = "scheduler"]
    /\ wPc' = [wPc EXCEPT ![w] = "k_process"]
    /\ UNCHANGED <<now, lockExpires, errorMsg, resultsBy, queue, sweepVars, wJob,
                   wSeen, claimVars>>
    /\ UNCHANGED <<hook, coreVars>>

\* process_job: get_job_data, get_job_type, processor.process(...) return
KvProcess(w) ==
    /\ wPc[w] = "k_process"
    /\ wPc' = [wPc EXCEPT ![w] = "k_store"]
    /\ UNCHANGED <<now, storeVars, queue, sweepVars, wJob, wSeen, claimVars, lastWriter>>
    /\ UNCHANGED <<hook, coreVars>>

\* process_job: the job data is missing or invalid, or the processor raises;
\* except Exception: await self.repository.update_job_status(job_id, "failed", 60*60*24)
KvFail(w) ==
    /\ wPc[w] = "k_process"
    /\ status' = KvUpdateJobStatus(status, wJob[w], "failed")
    /\ lastWriter' = [lastWriter EXCEPT ![wJob[w]] = "worker"]
    /\ wPc' = [wPc EXCEPT ![w] = "k_error"]
    /\ UNCHANGED <<now, lockExpires, errorMsg, resultsBy, queue, sweepVars, wJob,
                   wSeen, claimVars>>
    /\ UNCHANGED <<hook, coreVars>>

\* process_job: await self.repository.store_job_error(job_id, str(e), 60*60*24)
KvStoreError(w) ==
    /\ wPc[w] = "k_error"
    /\ errorMsg' = [errorMsg EXCEPT ![wJob[w]] = "processing failed"]
    /\ KvNextKey(w)
    /\ UNCHANGED <<now, status, lockExpires, resultsBy, queue, sweepVars, claimVars,
                   lastWriter>>
    /\ UNCHANGED <<hook, coreVars>>

\* a process_job that would go on to the status write without having written
\* the results
KvSkipResults(w) ==
    /\ wPc[w] = "k_store"
    /\ wPc' = [wPc EXCEPT ![w] = "k_complete"]
    /\ UNCHANGED <<now, storeVars, queue, sweepVars, wJob, wSeen, claimVars, lastWriter>>
    /\ UNCHANGED <<hook, coreVars>>

\* process_job: await self.repository.store_job_results(job_id, results, owner)
KvStoreResults(w) ==
    /\ wPc[w] = "k_store"
    /\ resultsBy' = [resultsBy EXCEPT ![wJob[w]] = @ \cup {w}]
    /\ wPc' = [wPc EXCEPT ![w] = "k_complete"]
    /\ UNCHANGED <<now, status, lockExpires, errorMsg, queue, sweepVars, wJob,
                   wSeen, claimVars, lastWriter>>
    /\ UNCHANGED <<hook, coreVars>>

\* process_job: await self.repository.update_job_status(job_id, "completed", owner)
KvComplete(w) ==
    /\ wPc[w] = "k_complete"
    /\ status' = KvUpdateJobStatus(status, wJob[w], "completed")
    /\ lastWriter' = [lastWriter EXCEPT ![wJob[w]] = "worker"]
    /\ wPc' = [wPc EXCEPT ![w] = "k_notify"]
    /\ UNCHANGED <<now, lockExpires, errorMsg, resultsBy, queue, sweepVars, wJob,
                   wSeen, claimVars>>
    /\ UNCHANGED <<hook, coreVars>>

\* what the webhook endpoint does with the POST
WebhookOutcomes == {"ok", "non2xx", "timeout", "raises"}

NotifierPropagates(outcome) == outcome \in {"timeout", "raises"}

\* DefaultWebhookNotifier.send_notification: the whole body is in a try whose
\* handlers (ClientResponseError, ..., Exception) log and return
NotifierRaises(outcome) == FALSE

\* process_job: await self.notifier.send_notification(results, job_id, trace_id)
\* inside the try of process_job: an exception leaving it would reach
\*   except Exception: update_job_status(job_id, "failed", ...); store_job_error
KvNotify(w) ==
    /\ wPc[w] = "k_notify"
    /\ \E outcome \in WebhookOutcomes :
         /\ hook' = [hook EXCEPT ![wJob[w]] = outcome]
         /\ IF NotifierRaises(outcome)
            THEN /\ status' = KvUpdateJobStatus(status, wJob[w], "failed")
                 /\ lastWriter' = [lastWriter EXCEPT ![wJob[w]] = "worker"]
                 /\ wPc' = [wPc EXCEPT ![w] = "k_error"]
                 /\ UNCHANGED <<wJob, wSeen>>
            ELSE /\ UNCHANGED <<status, lastWriter>>
                 /\ KvNextKey(w)
    /\ UNCHANGED <<now, lockExpires, errorMsg, resultsBy, queue, sweepVars, claimVars>>
    /\ UNCHANGED coreVars

NextKv ==
    \/ \E w \in Workers : KvScan(w)
    \/ \E w \in Workers : KvGetStatus(w)
    \/ \E w \in Workers : KvMarkProcessing(w)
    \/ \E w \in Workers : KvProcess(w)
    \/ \E w \in Workers : KvFail(w)
    \/ \E w \in Workers : KvStoreError(w)
    \/ \E w \in Workers : KvStoreResults(w)
    \/ \E w \in Workers : KvComplete(w)
    \/ \E w \in Workers : KvNotify(w)

SpecKv == InitKv /\ [][NextKv]_vars

(* ------------- poll loop: JobWorker on QdrantJobRepository ------------- *)
\* JobWorker runs the same poll_for_jobs and process_job with either repository
\* (worker_redis.py, worker_qdrant.py); the keys it is given are re-read with
\* get_job_status before it acts, and the status writes of both repositories
\* replace the stored status.  The except branch of process_job differs.

\* process_job, except branch:
\*   await self.repository.update_job_status(job_id, "failed", 60 * 60 * 24)
\* the third positional parameter of update_job_status is owner
FailedStatusOwnerArg == 86400

\* QdrantJobRepository.update_job_status: collection_name = owner + self.source_collection_name
\* is evaluated for an owner name only; any other argument raises, and the
\* exception is logged and raised again
QdrantOwnerNamesCollection(owner) == owner \in Owners

\* process_job: the job data is missing or invalid, or the processor raises; the
\* except branch calls update_job_status and then store_job_error.  When
\* update_job_status raises, the exception leaves process_job and the loop of
\* poll_for_jobs, whose handler logs it and sleeps
PollQdrantFail(w) ==
    /\ wPc[w] = "k_process"
    /\ IF QdrantOwnerNamesCollection(FailedStatusOwnerArg)
       THEN /\ status' = QdrantUpdateJobStatus(status, wJob[w], "failed")
            /\ errorMsg' = [errorMsg EXCEPT ![wJob[w]] = "processing failed"]
            /\ lastWriter' = [lastWriter EXCEPT ![wJob[w]] = "worker"]
            /\ KvNextKey(w)
       ELSE /\ UNCHANGED <<status, errorMsg, lastWriter>>
            /\ WorkerIdle(w)
    /\ UNCHANGED <<now, lockExpires, resultsBy, queue, sweepVars, claimVars>>
    /\ UNCHANGED <<hook, coreVars>>

NextPollQdrant ==
    \/ \E w \in Workers : KvScan(w)
    \/ \E w \in Workers : KvGetStatus(w)
    \/ \E w \in Workers : KvMarkProcessing(w)
    \/ \E w \in Workers : KvProcess(w)
    \/ \E w \in Workers : PollQdrantFail(w)
    \/ \E w \in Workers : KvStoreResults(w)
    \/ \E w \in Workers : KvComplete(w)
    \/ \E w \in Workers : KvNotify(w)

SpecPollQdrant == InitQdrant /\ [][NextPollQdrant]_vars

(* ------- sweeps of tasks_embedding_sharepoint on Qdrant ---------------- *)
\* get_pending_jobs: "return pending_jobs" is the last statement of the body
\* of "for job_data in pending_jobs", so the sweep ends after one candidate
SharepointReturn(s) ==
    /\ swPc' = [swPc EXCEPT ![s] = "idle"]
    /\ swRows' = [swRows EXCEPT ![s] = <<>>]
    /\ swIdx' = [swIdx EXCEPT ![s] = 1]

\* apply_async raises:
\*   await repository.update_job_status(job_id, f"error: {str(e)}", owner)
\*   return pending_jobs
SharepointApplyAsyncFails(s) ==
    /\ swPc[s] = "q_enqueue"
    /\ LET j == swRows[s][swIdx[s]]
       IN /\ status' = QdrantUpdateJobStatus(status, j, SchedulingErrorStatus)
          /\ lastWriter' = [lastWriter EXCEPT ![j] = "scheduler"]
    /\ SharepointReturn(s)
    /\ UNCHANGED <<now, lockExpires, errorMsg, resultsBy, queue, returnedBy,
                   workerVars, claimVars>>
    /\ UNCHANGED <<hook, coreVars>>

\* await repository.update_job_status(job_id, "processing", owner, None)
\* return pending_jobs
SharepointMarkProcessing(s) ==
    /\ swPc[s] = "q_processing"
    /\ LET j == swRows[s][swIdx[s]]
       IN /\ status' = QdrantUpdateJobStatus(status, j, "processing")
          /\ lastWriter' = [lastWriter EXCEPT ![j] = "scheduler"]
    /\ SharepointReturn(s)
    /\ UNCHANGED <<now, lockExpires, errorMsg, resultsBy, queue, returnedBy,
                   workerVars, claimVars>>
    /\ UNCHANGED <<hook, coreVars>>

NextSharepoint ==
    \/ \E s \in Sweeps : QdrantGetPending(s)
    \/ \E s \in Sweeps : QdrantMarkScheduled(s)
    \/ \E s \in Sweeps : QdrantApplyAsync(s)
    \/ \E s \in Sweeps : SharepointApplyAsyncFails(s)
    \/ \E s \in Sweeps : SharepointMarkProcessing(s)
    \/ \E w \in Workers, j \in Jobs : TaskDeliver(w, j)
    \/ \E w \in Workers : QdrantGetJobData(w)
    \/ \E w \in Workers : QdrantProcess(w)
    \/ \E w \in Workers : QdrantProcessFails(w)
    \/ \E w \in Workers : QdrantStoreResults(w)
    \/ \E w \in Workers : QdrantComplete(w)

SpecSharepoint == InitQdrant /\ [][NextSharepoint]_vars

(* ------------------------- SnowflakeID.next_id ------------------------- *)
\* time.time() moves forward
SfClockForward ==
    /\ sfClock < MaxClock
    /\ sfClock' = sfClock + 1
    /\ UNCHANGED <<last_timestamp, sequence, sfLock, sfPc, current_timestamp,
                   sfPrev, sfId>>
    /\ UNCHANGED <<jobVars, hook, rlVars, cacheVars, svcVars>>

\* the system clock is stepped back (NTP correction)
SfClockBackward ==
    /\ \E t \in 0..(sfClock - 1) : sfClock' = t
    /\ UNCHANGED <<last_timestamp, sequence, sfLock, sfPc, current_timestamp,
                   sfPrev, sfId>>
    /\ UNCHANGED <<jobVars, hook, rlVars, cacheVars, svcVars>>

\* with self.lock: current_timestamp = self._current_timestamp()
SfAcquire(t) ==
    /\ sfPc[t] = "idle"
    /\ sfLock = 0
    /\ sfLock' = t
    /\ current_timestamp' = [current_timestamp EXCEPT ![t] = sfClock]
    /\ sfPc' = [sfPc EXCEPT ![t] = "check"]
    /\ UNCHANGED <<sfClock, last_timestamp, sequence, sfPrev, sfId>>
    /\ UNCHANGED <<jobVars, hook, rlVars, cacheVars, svcVars>>

SfNeverRegressed(current, last) == FALSE

\* while current_timestamp < self.last_timestamp
SfRegressed(current, last) == current < last

\* the body of the regression loop: current_timestamp = self._current_timestamp()
SfSpin(t) ==
    /\ sfPc[t] = "check"
    /\ SfRegressed(current_timestamp[t], last_timestamp)
    /\ current_timestamp' = [current_timestamp EXCEPT ![t] = sfClock]
    /\ UNCHANGED <<sfClock, last_timestamp, sequence, sfLock, sfPc, sfPrev, sfId>>
    /\ UNCHANGED <<jobVars, hook, rlVars, cacheVars, svcVars>>

\* if current_timestamp > self.last_timestamp: self.sequence = 0
\* else: self.sequence = (self.sequence + 1) & 4095
\*       if self.sequence == 0: current_timestamp = self._wait_next_millis(...)
SfSequence(t) ==
    /\ sfPc[t] = "check"
    /\ ~SfRegressed(current_timestamp[t], last_timestamp)
    /\ IF current_timestamp[t] > last_timestamp
       THEN /\ sequence' = 0
            /\ sfPc' = [sfPc EXCEPT ![t] = "emit"]
       ELSE /\ sequence' = (sequence + 1) % (SequenceMask + 1)
            /\ sfPc' = [sfPc EXCEPT ![t] =
                          IF sequence' = 0 THEN "wait" ELSE "emit"]
    /\ UNCHANGED <<sfClock, last_timestamp, sfLock, current_timestamp, sfPrev, sfId>>
    /\ UNCHANGED <<jobVars, hook, rlVars, cacheVars, svcVars>>

\* _wait_next_millis: timestamp = self._current_timestamp()
\*                    while timestamp <= last_timestamp: read again
\* the loop is left with the first reading above last_timestamp
SfWaitNextMillis(t) ==
    /\ sfPc[t] = "wait"
    /\ sfClock > last_timestamp
    /\ current_timestamp' = [current_timestamp EXCEPT ![t] = sfClock]
    /\ sfPc' = [sfPc EXCEPT ![t] = "emit"]
    /\ UNCHANGED <<sfClock, last_timestamp, sequence, sfLock, sfPrev, sfId>>
    /\ UNCHANGED <<jobVars, hook, rlVars, cacheVars, svcVars>>

\* ((current_timestamp - self.epoch) << 22) | (self.machine_id << 12) | self.sequence
\* the three fields do not overlap, so the bitwise or is their sum
SnowflakeIdOf(timestamp, seq) ==
    timestamp * 2^TimestampShift + MachineId * 2^MachineShift + seq

\* self.last_timestamp = current_timestamp; the id is built and returned,
\* the lock is released
SfEmit(t) ==
    /\ sfPc[t] = "emit"
    /\ last_timestamp' = current_timestamp[t]
    /\ sfPrev' = sfId
    /\ sfId' = SnowflakeIdOf(current_timestamp[t], sequence)
    /\ sfLock' = 0
    /\ sfPc' = [sfPc EXCEPT ![t] = "idle"]
    /\ current_timestamp' = [current_timestamp EXCEPT ![t] = 0]
    /\ UNCHANGED <<sfClock, sequence>>
    /\ UNCHANGED <<jobVars, hook, rlVars, cacheVars, svcVars>>

InitSnowflake == IdleJobs /\ IdleCore

NextSnowflake ==
    \/ SfClockForward
    \/ SfClockBackward
    \/ \E t \in Threads : SfAcquire(t)
    \/ \E t \in Threads : SfSpin(t)
    \/ \E t \in Threads : SfSequence(t)
    \/ \E t \in Threads : SfWaitNextMillis(t)
    \/ \E t \in Threads : SfEmit(t)

SpecSnowflake == InitSnowflake /\ [][NextSnowflake]_vars

(* --------------------------- check_rate_limit -------------------------- *)
\* time.time() moves forward by a second
RlTick ==
    /\ rlNow < MaxSec
    /\ rlNow' = rlNow + 1
    /\ UNCHANGED <<rlSet, rlPc, rlClient, rlAt, rlAdmitted, rlCalls>>
    /\ UNCHANGED <<jobVars, hook, sfVars, cacheVars, svcVars>>

\* rate_key = f"rate_limit:{client_id}:{now // 60}"
RateBucket(at) == at \div RateWindow

\* rate_limit_middleware calls check_rate_limit for a request with a valid key:
\*   now = int(time.time())
RlRequest(h, c) ==
    /\ rlPc[h] = "idle"
    /\ rlCalls < MaxRequests
    /\ rlCalls' = rlCalls + 1
    /\ rlClient' = [rlClient EXCEPT ![h] = c]
    /\ rlAt' = [rlAt EXCEPT ![h] = rlNow]
    /\ rlPc' = [rlPc EXCEPT ![h] = "zadd"]
    /\ UNCHANGED <<rlNow, rlSet, rlAdmitted>>
    /\ UNCHANGED <<jobVars, hook, sfVars, cacheVars, svcVars>>

\* await redis_client.zadd(rate_key, {str(now): now})
\* the member is the second itself: a member that is already in the set is
\* not added again
RlZadd(h) ==
    /\ rlPc[h] = "zadd"
    /\ rlSet' = [rlSet EXCEPT ![rlClient[h]][RateBucket(rlAt[h])] = @ \cup {rlAt[h]}]
    /\ rlPc' = [rlPc EXCEPT ![h] = "zremrangebyscore"]
    /\ UNCHANGED <<rlNow, rlClient, rlAt, rlAdmitted, rlCalls>>
    /\ UNCHANGED <<jobVars, hook, sfVars, cacheVars, svcVars>>

\* await redis_client.zremrangebyscore(rate_key, 0, window_start)
RlZremrangebyscore(h) ==
    /\ rlPc[h] = "zremrangebyscore"
    /\ rlSet' = [rlSet EXCEPT ![rlClient[h]][RateBucket(rlAt[h])] =
                   {m \in @ : ~(0 <= m /\ m <= rlAt[h] - RateWindow)}]
    /\ rlPc' = [rlPc EXCEPT ![h] = "zcard"]
    /\ UNCHANGED <<rlNow, rlClient, rlAt, rlAdmitted, rlCalls>>
    /\ UNCHANGED <<jobVars, hook, sfVars, cacheVars, svcVars>>

\* return int(request_count) <= int(rate_limit)
RateAllowed(request_count) == request_count <= RequestsPerMinute

\* request_count = await redis_client.zcard(rate_key); expire(rate_key, 120);
\* rate_limit_middleware answers 429 when the check is false and calls the
\* next handler otherwise
RlZcard(h) ==
    /\ rlPc[h] = "zcard"
    /\ LET request_count == Cardinality(rlSet[rlClient[h]][RateBucket(rlAt[h])])
       IN rlAdmitted' = IF RateAllowed(request_count)
                        THEN [rlAdmitted EXCEPT ![rlClient[h]] = @ + 1]
                        ELSE rlAdmitted
    /\ rlPc' = [rlPc EXCEPT ![h] = "idle"]
    /\ rlClient' = [rlClient EXCEPT ![h] = 0]
    /\ rlAt' = [rlAt EXCEPT ![h] = 0]
    /\ UNCHANGED <<rlNow, rlSet, rlCalls>>
    /\ UNCHANGED <<jobVars, hook, sfVars, cacheVars, svcVars>>

InitRateLimit == IdleJobs /\ IdleCore

NextRateLimit ==
    \/ RlTick
    \/ \E h \in Handlers, c \in Clients : RlRequest(h, c)
    \/ \E h \in Handlers : RlZadd(h)
    \/ \E h \in Handlers : RlZremrangebyscore(h)
    \/ \E h \in Handlers : RlZcard(h)

SpecRateLimit == InitRateLimit /\ [][NextRateLimit]_vars

(* ------------------------------ HybridCache ---------------------------- *)
\* setex: await asyncio.gather(self.redis.setex(...), self.postgres.setex(...))
\* is entered; the two writes are in flight
CacheSetex(c, v) ==
    /\ cPc[c] = "idle"
    /\ cPc' = [cPc EXCEPT ![c] = "gather"]
    /\ cVal' = [cVal EXCEPT ![c] = v]
    /\ cLastWrite' = v
    /\ cDeleted' = FALSE
    /\ UNCHANGED <<cRedis, cPg, cRepop>>
    /\ UNCHANGED <<jobVars, hook, sfVars, rlVars, svcVars>>

\* self.redis.setex(key, seconds, value) of the gather takes effect
CacheSetexRedis(c) ==
    /\ cPc[c] \in {"gather", "postgres_done"}
    /\ cRedis' = cVal[c]
    /\ cPc' = [cPc EXCEPT ![c] = IF @ = "gather" THEN "redis_done" ELSE "idle"]
    /\ cDeleted' = FALSE
    /\ UNCHANGED <<cPg, cVal, cRepop, cLastWrite>>
    /\ UNCHANGED <<jobVars, hook, sfVars, rlVars, svcVars>>

\* self.postgres.setex(key, seconds, value) of the gather takes effect
CacheSetexPostgres(c) ==
    /\ cPc[c] \in {"gather", "redis_done"}
    /\ cPg' = cVal[c]
    /\ cPc' = [cPc EXCEPT ![c] = IF @ = "gather" THEN "postgres_done" ELSE "idle"]
    /\ cDeleted' = FALSE
    /\ UNCHANGED <<cRedis, cVal, cRepop, cLastWrite>>
    /\ UNCHANGED <<jobVars, hook, sfVars, rlVars, svcVars>>

\* get: value = await self.redis.get(key); "if value is None" the durable
\* tier is read next (a hit in Redis returns and changes nothing)
CacheGetMiss(c) ==
    /\ cPc[c] = "idle"
    /\ cRedis = 0
    /\ cPc' = [cPc EXCEPT ![c] = "miss"]
    /\ UNCHANGED <<cRedis, cPg, cVal, cRepop, cLastWrite, cDeleted>>
    /\ UNCHANGED <<jobVars, hook, sfVars, rlVars, svcVars>>

\* get: value = await self.postgres.get(key); if value is not None:
\*        asyncio.create_task(self.redis.setex(key, ttl, value))
CacheGetPostgres(c) ==
    /\ cPc[c] = "miss"
    /\ cRepop' = IF cPg # 0 THEN cRepop \cup {cPg} ELSE cRepop
    /\ cPc' = [cPc EXCEPT ![c] = "idle"]
    /\ UNCHANGED <<cRedis, cPg, cVal, cLastWrite, cDeleted>>
    /\ UNCHANGED <<jobVars, hook, sfVars, rlVars, svcVars>>

\* the task made by create_task runs: self.redis.setex(key, 3600, value)
CacheRepopulate(v) ==
    /\ v \in cRepop
    /\ cRedis' = v
    /\ cRepop' = cRepop \ {v}
    /\ UNCHANGED <<cPg, cPc, cVal, cLastWrite, cDeleted>>
    /\ UNCHANGED <<jobVars, hook, sfVars, rlVars, svcVars>>

InitCache == IdleJobs /\ IdleCore

NextCache ==
    \/ \E c \in Callers, v \in Values : CacheSetex(c, v)
    \/ \E c \in Callers : CacheSetexRedis(c)
    \/ \E c \in Callers : CacheSetexPostgres(c)
    \/ \E c \in Callers : CacheGetMiss(c)
    \/ \E c \in Callers : CacheGetPostgres(c)
    \/ \E v \in Values : CacheRepopulate(v)

SpecCache == InitCache /\ [][NextCache]_vars

\* a setex of some caller has been entered and has not returned
CacheWriteInFlight ==
    \E c \in Callers : cPc[c] \in {"gather", "redis_done", "postgres_done"}

\* delete: await asyncio.gather(self.redis.delete(key), self.postgres.delete(key))
\* is entered; the two deletes are in flight
CacheDelete(c) ==
    /\ cPc[c] = "idle"
    /\ cPc' = [cPc EXCEPT ![c] = "d_gather"]
    /\ UNCHANGED <<cRedis, cPg, cVal, cRepop, cLastWrite, cDeleted>>
    /\ UNCHANGED <<jobVars, hook, sfVars, rlVars, svcVars>>

\* self.redis.delete(key) of the gather takes effect
CacheDeleteRedis(c) ==
    /\ cPc[c] \in {"d_gather", "d_postgres_done"}
    /\ cRedis' = 0
    /\ cPc' = [cPc EXCEPT ![c] = IF @ = "d_gather" THEN "d_redis_done" ELSE "idle"]
    /\ cDeleted' = IF cPc[c] = "d_postgres_done" /\ ~CacheWriteInFlight
                   THEN TRUE ELSE cDeleted
    /\ UNCHANGED <<cPg, cVal, cRepop, cLastWrite>>
    /\ UNCHANGED <<jobVars, hook, sfVars, rlVars, svcVars>>

\* self.postgres.delete(key) of the gather takes effect
CacheDeletePostgres(c) ==
    /\ cPc[c] \in {"d_gather", "d_redis_done"}
    /\ cPg' = 0
    /\ cPc' = [cPc EXCEPT ![c] = IF @ = "d_gather" THEN "d_postgres_done" ELSE "idle"]
    /\ cDeleted' = IF cPc[c] = "d_redis_done" /\ ~CacheWriteInFlight
                   THEN TRUE ELSE cDeleted
    /\ UNCHANGED <<cRedis, cVal, cRepop, cLastWrite>>
    /\ UNCHANGED <<jobVars, hook, sfVars, rlVars, svcVars>>

NextCacheDelete ==
    \/ \E c \in Callers, v \in Values : CacheSetex(c, v)
    \/ \E c \in Callers : CacheSetexRedis(c)
    \/ \E c \in Callers : CacheSetexPostgres(c)
    \/ \E c \in Callers : CacheGetMiss(c)
    \/ \E c \in Callers : CacheGetPostgres(c)
    \/ \E v \in Values : CacheRepopulate(v)
    \/ \E c \in Callers : CacheDelete(c)
    \/ \E c \in Callers : CacheDeleteRedis(c)
    \/ \E c \in Callers : CacheDeletePostgres(c)

SpecCacheDelete == InitCache /\ [][NextCacheDelete]_vars

(* ------------------ HybridCache.incr / incrby / incrbyfloat ------------ *)
\* incrby: value = await self.redis.incrby(key, amount)
\*         asyncio.create_task(self.postgres.set(key, str(value)))
\* (incr is the amount 1)
CtrIncrby(amount) ==
    /\ ctrRedis + amount <= MaxCount
    /\ ctrRedis' = ctrRedis + amount
    /\ ctrTasks' = ctrTasks \cup {ctrRedis'}
    /\ UNCHANGED ctrPg
    /\ UNCHANGED exceptCtr

\* a task made by create_task runs: PostgresCache.set takes a connection of
\* the pool and upserts the value it was given
CtrMirror(v) ==
    /\ v \in ctrTasks
    /\ ctrPg' = v
    /\ ctrTasks' = ctrTasks \ {v}
    /\ UNCHANGED ctrRedis
    /\ UNCHANGED exceptCtr

InitCounter == IdleJobs /\ IdleCore

NextCounter ==
    \/ \E amount \in 1..MaxAmount : CtrIncrby(amount)
    \/ \E v \in 1..MaxCount : CtrMirror(v)

SpecCounter == InitCounter /\ [][NextCounter]_vars

(* ------------------------------ TextChunker ---------------------------- *)
\* the separators _find_break_point looks for
ParagraphBreak == <<"\n", "\n">>
Newline == <<"\n">>
SentenceEnd == <<".", " ">>

\* positions (counted from 0) where the input texts carry a separator:
\* around the first target and its search window, before the window, and
\* around the second target
MarkPositions ==
    {10, ChunkSize - WindowSize - 1, ChunkSize - WindowSize, ChunkSize - 20,
     ChunkSize - 2, ChunkSize - 1, ChunkSize, 2 * ChunkSize - ChunkOverlap - 30}

TextLengths ==
    {0, 1, ChunkSize, ChunkSize + 1, 2 * ChunkSize - ChunkOverlap + 1, MaxTextLen}

\* a text of len letters with the separator sep written at each position of marks
TextOf(len, marks, sep) ==
    [i \in 1..len |->
        IF \E m \in marks : i - 1 \in m..(m + Len(sep) - 1)
        THEN LET m == CHOOSE m \in marks : i - 1 \in m..(m + Len(sep) - 1)
             IN sep[i - m]
        ELSE "a"]

\* the texts given to chunk_text: up to two separators of one kind
Texts ==
    {TextOf(len, marks, sep) :
        len \in TextLengths,
        marks \in {ms \in SUBSET MarkPositions :
                      /\ Cardinality(ms) <= 2
                      /\ \A a, b \in ms : a # b => (a - b > 2 \/ b - a > 2)},
        sep \in {ParagraphBreak, Newline, SentenceEnd}}

\* text[a:b] of Python, indices counted from 0
Slice(text, a, b) ==
    LET hi == IF b > Len(text) THEN Len(text) ELSE b
    IN IF hi <= a THEN <<>> ELSE SubSeq(text, a + 1, hi)

\* text[lo:hi].rfind(sub): the highest index of the slice where sub starts and
\* fits into the slice, -1 when there is none
RFind(text, lo, hi, sub) ==
    LET hits == {i \in 0..(hi - lo - Len(sub)) :
                    \A k \in 1..Len(sub) : text[lo + i + k] = sub[k]}
    IN IF hits = {} THEN -1 ELSE CHOOSE i \in hits : \A h \in hits : h <= i

SearchStartOfText(position) == 0

\* _find_break_point: search_start = max(0, position - window_size)
SearchStart(position) ==
    IF position - WindowSize > 0 THEN position - WindowSize ELSE 0

\* _find_break_point: paragraph break, then newline, then ". ", else position
FindBreakPoint(text, position) ==
    LET search_start == SearchStart(position)
        paragraph_break == RFind(text, search_start, position, ParagraphBreak)
        newline == RFind(text, search_start, position, Newline)
        sentence_end == RFind(text, search_start, position, SentenceEnd)
    IN IF paragraph_break # -1 THEN search_start + paragraph_break + 2
       ELSE IF newline # -1 THEN search_start + newline + 1
       ELSE IF sentence_end # -1 THEN search_start + sentence_end + 2
       ELSE position

NextStartWithoutOverlap(break_point) == break_point

\* chunk_text: start = break_point - self.chunk_overlap; if start < 0: start = 0
NextStart(break_point) ==
    IF break_point - ChunkOverlap < 0 THEN 0 ELSE break_point - ChunkOverlap

\* chunk_text up to the loop: "if not text: return []",
\* "if len(text) <= self.chunk_size: return [text]", chunks = [], start = 0
ChunkTextCall ==
    /\ ckPc = "call"
    /\ IF Len(ckText) = 0
       THEN /\ ckChunks' = <<>>
            /\ ckPc' = "returned"
       ELSE IF Len(ckText) <= ChunkSize
       THEN /\ ckChunks' = <<ckText>>
            /\ ckPc' = "returned"
       ELSE /\ ckChunks' = <<>>
            /\ ckPc' = "loop"
    /\ ckStart' = 0
    /\ UNCHANGED <<ckText, ckBreaks>>
    /\ UNCHANGED exceptChunk

\* one pass of "while start < len(text)"
ChunkTextLoop ==
    /\ ckPc = "loop"
    /\ Len(ckChunks) < MaxChunks
    /\ LET end == ckStart + ChunkSize
           break_point == FindBreakPoint(ckText, end)
       IN IF ckStart >= Len(ckText)
          THEN /\ ckPc' = "returned"
               /\ UNCHANGED <<ckStart, ckChunks, ckBreaks>>
          ELSE IF end >= Len(ckText)
          THEN /\ ckChunks' = Append(ckChunks, Slice(ckText, ckStart, Len(ckText)))
               /\ ckPc' = "returned"
               /\ UNCHANGED <<ckStart, ckBreaks>>
          ELSE /\ ckChunks' = Append(ckChunks, Slice(ckText, ckStart, break_point))
               /\ ckBreaks' = Append(ckBreaks, <<end, break_point>>)
               /\ ckStart' = NextStart(break_point)
               /\ ckPc' = "loop"
    /\ UNCHANGED ckText
    /\ UNCHANGED exceptChunk

InitChunker ==
    /\ IdleJobs
    /\ hook = [j \in Jobs |-> "none"]
    /\ IdleSnowflake /\ IdleRateLimit /\ IdleCache
    /\ IdleCounter /\ IdleEmbedding /\ IdleShutdown /\ IdleKeys
    /\ IdleUpdate /\ IdleAuth /\ IdleConn /\ IdleTtl /\ IdleIngest
    /\ IdleConfigured /\ IdleTenant
    /\ ckPc = "call"
    /\ ckText \in Texts
    /\ ckStart = 0
    /\ ckChunks = <<>>
    /\ ckBreaks = <<>>

NextChunker ==
    \/ ChunkTextCall
    \/ ChunkTextLoop

SpecChunker == InitChunker /\ [][NextChunker]_vars

(* ---------------------- chunker with given sizes ----------------------- *)
\* the chunk_size and chunk_overlap arguments given to TextChunker(...), 0 for
\* an argument left out
SizeArgs == {0, 60, 100}
OverlapArgs == {-1, 0, 10, 55, 60}

\* the texts chunked by the configured chunker: longer than every chunk size,
\* with at most one separator
ConfiguredTexts ==
    {TextOf(len, marks, sep) :
        len \in {MaxConfiguredLen - 20, MaxConfiguredLen},
        marks \in {{}, {52}, {95}},
        sep \in {ParagraphBreak, Newline, SentenceEnd}}

\* TextChunker.__init__: "chunk_size or int(os.environ.get("CHUNK_SIZE", 300))",
\* the same for the overlap, then the two validations
TextChunkerInit(chunk_size, chunk_overlap) ==
    LET size0 == IF chunk_size = 0 THEN ChunkSize ELSE chunk_size
        over0 == IF chunk_overlap = 0 THEN ChunkOverlap ELSE chunk_overlap
        size1 == IF size0 <= 0 THEN ChunkSize ELSE size0
        over1 == IF over0 < 0 \/ over0 >= size1 THEN ChunkOverlap ELSE over0
    IN [chunk_size |-> size1, chunk_overlap |-> over1]

\* chunk_text: start = break_point - self.chunk_overlap; if start < 0: start = 0
NextStartWith(break_point, chunk_overlap) ==
    IF break_point - chunk_overlap < 0 THEN 0 ELSE break_point - chunk_overlap

\* TextChunker(chunk_size, chunk_overlap) and the text of the coming call
CzNew(chunk_size, chunk_overlap, text) ==
    /\ czPc = "new"
    /\ czCfg' = TextChunkerInit(chunk_size, chunk_overlap)
    /\ czText' = text
    /\ czPc' = "call"
    /\ UNCHANGED <<czStart, czPrev>>
    /\ UNCHANGED exceptCfg

\* chunk_text up to the loop
CzCall ==
    /\ czPc = "call"
    /\ czPc' = IF Len(czText) <= czCfg.chunk_size THEN "returned" ELSE "loop"
    /\ czStart' = 0
    /\ czPrev' = -1
    /\ UNCHANGED <<czCfg, czText>>
    /\ UNCHANGED exceptCfg

\* one pass of "while start < len(text)"
CzLoop ==
    /\ czPc = "loop"
    /\ LET end == czStart + czCfg.chunk_size
           break_point == FindBreakPoint(czText, end)
       IN IF czStart >= Len(czText) \/ end >= Len(czText)
          THEN /\ czPc' = "returned"
               /\ UNCHANGED <<czStart, czPrev>>
          ELSE /\ czStart' = NextStartWith(break_point, czCfg.chunk_overlap)
               /\ czPrev' = czStart
               /\ czPc' = "loop"
    /\ UNCHANGED <<czCfg, czText>>
    /\ UNCHANGED exceptCfg

InitConfigured == IdleJobs /\ IdleCore

NextConfigured ==
    \/ \E chunk_size \in SizeArgs, chunk_overlap \in OverlapArgs, text \in ConfiguredTexts :
          CzNew(chunk_size, chunk_overlap, text)
    \/ CzCall
    \/ CzLoop

SpecConfigured == InitConfigured /\ [][NextConfigured]_vars

(* --------------------------- embedding task ---------------------------- *)
\* len(chunks) of a mail body: one batch, a full batch and one more chunk,
\* two full batches and one more chunk
BodyChunkCounts == {1, BatchSize + 1, 2 * BatchSize + 1}

Attachments == 1..NumAttachments

\* the ways an attachment yields no result: no converter for its type, the
\* converter returns no text, send_embedding raises
SkipReasons == {"unsupported", "no_text", "raised"}

\* chunks[start_idx:start_idx+batch_size]
BatchLen(start_idx, chunks) ==
    IF chunks - start_idx < BatchSize THEN chunks - start_idx ELSE BatchSize

\* where in a batch of n chunks the embedding may raise: at its first chunk,
\* at its last chunk, nowhere (n)
FailPoints(n) == {f \in {0, n - 1, n} : f >= 0}

\* the chunk_index values start_idx .. start_idx + k - 1 in order
ChunkIndexes(start_idx, k) == [j \in 1..k |-> start_idx + j - 1]

\* a failing batch ends the loop
StartIdxAfterAbort(start_idx, chunks, failed) ==
    IF failed THEN chunks ELSE start_idx + BatchSize

\* start_idx += batch_size runs whether or not the batch raised
StartIdxAfter(start_idx, chunks, failed) == start_idx + BatchSize

\* an attachment failure leaves start_embedding with the exception
AttachmentErrorPropagates == "raised"

\* the except clause of the attachment loop logs and goes on
AttachmentError == "logged"

\* uuid.uuid4().hex: an id never drawn before
PointId(n, doc, chunk_index) == n

\* the position after document doc is finished
AfterDoc(doc) == IF doc < NumAttachments THEN "attach" ELSE "store"

\* start_embedding with a non-empty text: embedding_text chunks the body
StartEmbedding(n) ==
    /\ emPc = "idle"
    /\ emPc' = "batch"
    /\ emDoc' = 0
    /\ emChunks' = n
    /\ emStart' = 0
    /\ emAll' = <<>>
    /\ emFailed' = {}
    /\ UNCHANGED <<emResults, emSkipped, emPoints, emNextId, emStores, emStatus>>
    /\ UNCHANGED exceptEmb

\* start_embedding with an empty text returns a dict; store_job_results
\* iterates its keys, raises, and the task ends without a status update
StartEmbeddingNoText ==
    /\ emPc = "idle"
    /\ emPc' = "raised"
    /\ UNCHANGED <<emDoc, emChunks, emStart, emAll, emFailed, emResults,
                   emSkipped, emPoints, emNextId, emStores, emStatus>>
    /\ UNCHANGED exceptEmb

\* embedding_text of the body raises outside the batch loop
EmbeddingTextRaises ==
    /\ emPc = "batch"
    /\ emDoc = 0
    /\ emStart = 0
    /\ emPc' = "raised"
    /\ UNCHANGED <<emDoc, emChunks, emStart, emAll, emFailed, emResults,
                   emSkipped, emPoints, emNextId, emStores, emStatus>>
    /\ UNCHANGED exceptEmb

\* one pass of the while loop of embedding_text: the batch is embedded chunk
\* by chunk until chunk f raises (f = length of the batch: none raises)
EmbeddingTextBatch(f) ==
    /\ emPc = "batch"
    /\ emStart < emChunks
    /\ f \in FailPoints(BatchLen(emStart, emChunks))
    /\ emAll' = emAll \o ChunkIndexes(emStart, f)
    /\ emFailed' = IF f < BatchLen(emStart, emChunks)
                   THEN emFailed \cup {emStart} ELSE emFailed
    /\ emStart' = StartIdxAfter(emStart, emChunks, f < BatchLen(emStart, emChunks))
    /\ UNCHANGED <<emPc, emDoc, emChunks, emResults, emSkipped, emPoints,
                   emNextId, emStores, emStatus>>
    /\ UNCHANGED exceptEmb

\* embedding_text returns and the result joins the results list
EmbeddingTextReturn ==
    /\ emPc = "batch"
    /\ emStart >= emChunks
    /\ emResults' = Append(emResults, [doc |-> emDoc, chunk_count |-> emChunks,
                                       embeddings |-> emAll, failed |-> emFailed])
    /\ emPc' = AfterDoc(emDoc)
    /\ UNCHANGED <<emDoc, emChunks, emStart, emAll, emFailed, emSkipped,
                   emPoints, emNextId, emStores, emStatus>>
    /\ UNCHANGED exceptEmb

\* one pass of the attachment loop for an attachment that yields no result
AttachmentSkipped(reason) ==
    /\ emPc = "attach"
    /\ emDoc' = emDoc + 1
    /\ emSkipped' = emSkipped \cup {emDoc + 1}
    /\ emPc' = IF reason = "raised" /\ AttachmentError = "raised"
               THEN "raised" ELSE AfterDoc(emDoc + 1)
    /\ UNCHANGED <<emChunks, emStart, emAll, emFailed, emResults, emPoints,
                   emNextId, emStores, emStatus>>
    /\ UNCHANGED exceptEmb

\* one pass of the attachment loop for an attachment that is converted:
\* send_embedding embeds its n chunks one by one, a chunk whose embedding
\* raises is left out
AttachmentEmbedded(n, dropped) ==
    /\ emPc = "attach"
    /\ emDoc' = emDoc + 1
    /\ emResults' = Append(emResults,
           [doc |-> emDoc + 1, chunk_count |-> n,
            embeddings |-> SortedSeq((0..(n - 1)) \ dropped),
            failed |-> dropped])
    /\ emPc' = AfterDoc(emDoc + 1)
    /\ UNCHANGED <<emChunks, emStart, emAll, emFailed, emSkipped, emPoints,
                   emNextId, emStores, emStatus>>
    /\ UNCHANGED exceptEmb

\* the points save_embeddings makes of one result, ids drawn from base on
PointsOf(result, base) ==
    {[id |-> PointId(base + i, result.doc, result.embeddings[i]),
      doc |-> result.doc,
      chunk_index |-> result.embeddings[i]] : i \in 1..Len(result.embeddings)}

\* the ids drawn before result k is saved, when the results marked in oks
\* reach the upsert
RECURSIVE IdsBefore(_, _, _)
IdsBefore(results, oks, k) ==
    IF k <= 1 THEN 0
    ELSE IdsBefore(results, oks, k - 1)
         + (IF oks[k - 1] THEN Len(results[k - 1].embeddings) ELSE 0)

\* store_job_results: save_embeddings for each result in turn; a result
\* without embeddings writes nothing, an error inside save_embeddings is
\* logged and answered with saved = False
StoreJobResults(oks) ==
    /\ emPc = "store"
    /\ emStores < MaxStores
    /\ oks \in [1..Len(emResults) -> BOOLEAN]
    /\ \A k \in 1..Len(emResults) : emResults[k].embeddings = <<>> => ~oks[k]
    /\ emPoints' = emPoints \cup UNION {
           IF oks[k]
           THEN PointsOf(emResults[k], emNextId + IdsBefore(emResults, oks, k))
           ELSE {} : k \in 1..Len(emResults)}
    /\ emNextId' = emNextId + IdsBefore(emResults, oks, Len(emResults) + 1)
    /\ emStores' = emStores + 1
    /\ UNCHANGED <<emPc, emDoc, emChunks, emStart, emAll, emFailed, emResults,
                   emSkipped, emStatus>>
    /\ UNCHANGED exceptEmb

\* update_job_status(job_id, "completed") after the results are stored
CompleteEmbedding ==
    /\ emPc = "store"
    /\ emStores >= 1
    /\ emStatus' = "completed"
    /\ emPc' = "done"
    /\ UNCHANGED <<emDoc, emChunks, emStart, emAll, emFailed, emResults,
                   emSkipped, emPoints, emNextId, emStores>>
    /\ UNCHANGED exceptEmb

InitEmbedding == IdleJobs /\ IdleCore

NextEmbedding ==
    \/ \E n \in BodyChunkCounts : StartEmbedding(n)
    \/ StartEmbeddingNoText
    \/ EmbeddingTextRaises
    \/ \E f \in 0..BatchSize : EmbeddingTextBatch(f)
    \/ EmbeddingTextReturn
    \/ \E reason \in SkipReasons : AttachmentSkipped(reason)
    \/ \E n \in 1..MaxAttachmentChunks :
           \E dropped \in SUBSET (0..(n - 1)) : AttachmentEmbedded(n, dropped)
    \/ \E oks \in [1..Len(emResults) -> BOOLEAN] : StoreJobResults(oks)
    \/ CompleteEmbedding

SpecEmbedding == InitEmbedding /\ [][NextEmbedding]_vars

(* --------------------------- worker shutdown --------------------------- *)
PolledJobs == 1..NumPolledJobs

\* a client submits job j
ShSubmit(j) ==
    /\ shPc # "exited"
    /\ shStatus[j] = "absent"
    /\ shStatus' = [shStatus EXCEPT ![j] = "pending"]
    /\ UNCHANGED <<shPc, shJob>>
    /\ UNCHANGED exceptShut

\* poll_for_jobs finds j pending, sets it to processing and awaits
\* process_job
ShTakeJob(j) ==
    /\ shPc = "polling"
    /\ shStatus[j] = "pending"
    /\ shStatus' = [shStatus EXCEPT ![j] = "processing"]
    /\ shJob' = j
    /\ shPc' = "processing"
    /\ UNCHANGED exceptShut

\* process_job runs to its end: completed, or failed through its
\* except Exception clause
ShProcessJob(outcome) ==
    /\ shPc = "processing"
    /\ shStatus' = [shStatus EXCEPT ![shJob] = outcome]
    /\ shJob' = 0
    /\ shPc' = "polling"
    /\ UNCHANGED exceptShut

\* SIGTERM: handle_sigterm calls sys.exit(0); asyncio.run cancels the main
\* task. The CancelledError (or the SystemExit itself) is a BaseException
\* that passes the except Exception clause of process_job; poll_for_jobs
\* breaks out of its loop and run() disconnects
ShSigterm ==
    /\ shPc # "exited"
    /\ shPc' = "exited"
    /\ UNCHANGED <<shJob, shStatus>>
    /\ UNCHANGED exceptShut

InitShutdown == IdleJobs /\ IdleCore

NextShutdown ==
    \/ \E j \in PolledJobs : ShSubmit(j)
    \/ \E j \in PolledJobs : ShTakeJob(j)
    \/ \E outcome \in {"completed", "failed"} : ShProcessJob(outcome)
    \/ ShSigterm

SpecShutdown == InitShutdown /\ [][NextShutdown]_vars

(* ------------------------- provider key rotation ----------------------- *)
\* key 0 is the primary key, key i + 1 is backup key i
PrimaryKey == 0
Keys == 0..NumBackupKeys
KeyUsers == 1..NumKeyUsers

\* the primary key whatever the flags say
AlwaysPrimary(limited) == PrimaryKey

\* get_api_key while Redis answers: the primary key unless flagged, else the
\* first backup key without a flag; with every key flagged the exception
\* raised is caught by the method itself and the primary key is returned
FirstUnlimited(limited) ==
    IF Keys \ limited = {} THEN PrimaryKey
    ELSE CHOOSE k \in Keys \ limited : \A m \in Keys \ limited : k <= m

\* get_api_key: a Redis error lands in the except clause, which returns the
\* primary key
GetApiKey(limited, redisOk) ==
    IF redisOk THEN FirstUnlimited(limited) ELSE AlwaysPrimary(limited)

\* mark_key_limited: setex of the flag of the key; a Redis error is logged
\* and the flags stay as they are
MarkKeyLimited(limited, key, redisOk) ==
    IF redisOk THEN limited \cup {key} ELSE limited

\* analyze_text up to the provider call: get_api_key
KeyGet(u) ==
    /\ kPc[u] \in {"idle", "retry"}
    /\ kKey' = [kKey EXCEPT ![u] = GetApiKey(kLimited, kRedisOk)]
    /\ kPc' = [kPc EXCEPT ![u] = "call"]
    /\ UNCHANGED <<kLimited, kRedisOk, kPrev, kRetries>>
    /\ UNCHANGED exceptKey

\* the provider call returns, fails with a rate limit error, or fails with
\* another error that analyze_text re-raises
KeyCall(u, outcome) ==
    /\ kPc[u] = "call"
    /\ outcome = "rate_limit" => kRetries[u] < MaxRetries
    /\ kPc' = [kPc EXCEPT ![u] = CASE outcome = "ok" -> "done"
                                   [] outcome = "rate_limit" -> "mark"
                                   [] OTHER -> "raised"]
    /\ UNCHANGED <<kLimited, kRedisOk, kKey, kPrev, kRetries>>
    /\ UNCHANGED exceptKey

\* the except clause of analyze_text on a rate limit error:
\* mark_key_limited(api_key), then the recursive analyze_text call
KeyMark(u) ==
    /\ kPc[u] = "mark"
    /\ kLimited' = MarkKeyLimited(kLimited, kKey[u], kRedisOk)
    /\ kPrev' = [kPrev EXCEPT ![u] = kKey[u]]
    /\ kRetries' = [kRetries EXCEPT ![u] = @ + 1]
    /\ kPc' = [kPc EXCEPT ![u] = "retry"]
    /\ UNCHANGED <<kRedisOk, kKey>>
    /\ UNCHANGED exceptKey

\* the flag of key k reaches the end of its duration
KeyFlagExpires(k) ==
    /\ k \in kLimited
    /\ kLimited' = kLimited \ {k}
    /\ UNCHANGED <<kRedisOk, kPc, kKey, kPrev, kRetries>>
    /\ UNCHANGED exceptKey

\* Redis stops or starts answering
KeyRedisToggle ==
    /\ kRedisOk' = ~kRedisOk
    /\ UNCHANGED <<kLimited, kPc, kKey, kPrev, kRetries>>
    /\ UNCHANGED exceptKey

InitKeys == IdleJobs /\ IdleCore

NextKeys ==
    \/ \E u \in KeyUsers : KeyGet(u)
    \/ \E u \in KeyUsers : \E outcome \in {"ok", "rate_limit", "error"} :
           KeyCall(u, outcome)
    \/ \E u \in KeyUsers : KeyMark(u)
    \/ \E k \in Keys : KeyFlagExpires(k)
    \/ KeyRedisToggle

SpecKeys == InitKeys /\ [][NextKeys]_vars

(* ------------------ analysis call with every key limited --------------- *)
\* the provider call of analyze_text / analyze_subjects returns, fails with a
\* rate limit error, or fails with another error; a call made with a flagged
\* key does not succeed. Whatever the number of attempts already made, the
\* except clause has one answer to a rate limit error: mark and call again.
RetryCall(u, outcome) ==
    /\ kPc[u] = "call"
    /\ outcome = "ok" => kKey[u] \notin kLimited
    /\ kPc' = [kPc EXCEPT ![u] = CASE outcome = "ok" -> "done"
                                   [] outcome = "rate_limit" -> "mark"
                                   [] OTHER -> "raised"]
    /\ UNCHANGED <<kLimited, kRedisOk, kKey, kPrev, kRetries>>
    /\ UNCHANGED exceptKey

\* except clause on a rate limit error: mark_key_limited(api_key), then
\* "return await self.analyze_text(text, analysis_type)"; the count of the
\* attempts stops at MaxRetries, the code keeps none
RetryMark(u) ==
    /\ kPc[u] = "mark"
    /\ kLimited' = MarkKeyLimited(kLimited, kKey[u], kRedisOk)
    /\ kPrev' = [kPrev EXCEPT ![u] = kKey[u]]
    /\ kRetries' = [kRetries EXCEPT ![u] = IF @ < MaxRetries THEN @ + 1 ELSE @]
    /\ kPc' = [kPc EXCEPT ![u] = "retry"]
    /\ UNCHANGED <<kRedisOk, kKey>>
    /\ UNCHANGED exceptKey

NextRetry ==
    \/ \E u \in KeyUsers : KeyGet(u)
    \/ \E u \in KeyUsers : \E outcome \in {"ok", "rate_limit", "error"} :
           RetryCall(u, outcome)
    \/ \E u \in KeyUsers : RetryMark(u)

\* every call that can take a step takes one: the event loop runs each
\* coroutine that is ready
SpecRetry == InitKeys /\ [][NextRetry]_vars /\ WF_vars(NextRetry)

(* ---------------- update_job_status on a missing job ------------------- *)
Backends == {"redis", "postgres", "qdrant"}

\* the statuses update_job_status is called with
StatusArgs == {"processing", "completed", "failed"}

\* QdrantSharepointRepository.update_job_status: retrieve the point; with a
\* result set_payload, without one log a warning; return in both cases
SharepointUpdateJobStatus(st, j, s) ==
    IF st[j] = "absent" THEN st ELSE [st EXCEPT ![j] = s]

\* the job is created in backend b
UpdCreateJob(b, j) ==
    /\ updStatus[b][j] = "absent"
    /\ updStatus' = [updStatus EXCEPT ![b][j] = "pending"]
    /\ UNCHANGED updCall
    /\ UNCHANGED exceptUpd

\* update_job_status(j, s) on backend b: Redis setex writes the key whether
\* or not it exists, the UPDATE of PostgreSQL matches no row, Qdrant finds
\* no point; none of the three raises
UpdUpdateJobStatus(b, j, s) ==
    /\ updStatus' = [updStatus EXCEPT ![b] =
           CASE b = "redis" -> KvUpdateJobStatus(updStatus[b], j, s)
             [] b = "postgres" -> PgUpdateJobStatus(updStatus[b], j, s)
             [] OTHER -> SharepointUpdateJobStatus(updStatus[b], j, s)]
    /\ updCall' = [backend |-> b, job |-> j,
                   existed |-> updStatus[b][j] # "absent", ended |-> "returned"]
    /\ UNCHANGED exceptUpd

InitUpdate == IdleJobs /\ IdleCore

NextUpdate ==
    \/ \E b \in Backends : \E j \in Jobs : UpdCreateJob(b, j)
    \/ \E b \in Backends : \E j \in Jobs : \E s \in StatusArgs :
           UpdUpdateJobStatus(b, j, s)

SpecUpdate == InitUpdate /\ [][NextUpdate]_vars

(* ------------------------ authenticated ingestion ---------------------- *)
ApiKeys == 1..NumApiKeys

\* the X-API-Key header of a request: absent, empty, or one of the keys
Headers == {NoHeader, EmptyKey} \cup ApiKeys

\* generate_api_key: the record carries the permissions of its tier; a tier
\* get_tier_permissions does not know gets none
AuGenerateKey(k, tier) ==
    /\ auKeys[k] = "absent"
    /\ auKeys' = [auKeys EXCEPT ![k] = IF tier = "free" THEN "active" ELSE "no_permission"]
    /\ UNCHANGED <<auJobs, auLast>>
    /\ UNCHANGED exceptAuth

\* the expires_at of the record of key k passes
AuKeyExpires(k) ==
    /\ auKeys[k] \in {"active", "no_permission"}
    /\ auKeys' = [auKeys EXCEPT ![k] = "expired"]
    /\ UNCHANGED <<auJobs, auLast>>
    /\ UNCHANGED exceptAuth

\* why a request with header h is not authorised for "analyze": the header
\* parameter is declared required; validate_api_key rejects an empty key, a
\* key without record and an expired one; requires_permission rejects a key
\* without the permission
AuthFailure(keys, h) ==
    CASE h = NoHeader -> "missing"
      [] h = EmptyKey -> "invalid"
      [] keys[h] = "absent" -> "invalid"
      [] keys[h] = "expired" -> "expired"
      [] keys[h] = "no_permission" -> "no_permission"
      [] OTHER -> "none"

\* a request without the required X-API-Key header does not reach the
\* handler: the framework answers the validation error
MissingHeaderCode == 422

\* the answer of POST /api/v1/analyze
AnalyzeCode(failure) ==
    CASE failure = "missing" -> MissingHeaderCode
      [] failure \in {"invalid", "expired"} -> 401
      [] failure = "no_permission" -> 403
      [] OTHER -> 202

\* analyze_email: requires_permission, then generate_id and store_job_data
AuAnalyzeEmail(h) ==
    /\ AuthFailure(auKeys, h) = "none" => auJobs < MaxSubmitted
    /\ auJobs' = IF AuthFailure(auKeys, h) = "none" THEN auJobs + 1 ELSE auJobs
    /\ auLast' = [header |-> h, failure |-> AuthFailure(auKeys, h),
                  code |-> AnalyzeCode(AuthFailure(auKeys, h)),
                  created |-> AuthFailure(auKeys, h) = "none"]
    /\ UNCHANGED auKeys
    /\ UNCHANGED exceptAuth

InitAuth == IdleJobs /\ IdleCore

NextAuth ==
    \/ \E k \in ApiKeys : \E tier \in {"free", "unknown"} : AuGenerateKey(k, tier)
    \/ \E k \in ApiKeys : AuKeyExpires(k)
    \/ \E h \in Headers : AuAnalyzeEmail(h)

SpecAuth == InitAuth /\ [][NextAuth]_vars

(* -------------------------- connect_with_retry ------------------------- *)
\* a delay of n seconds in the unit of cnDelay and cnSleeps
Seconds(n) == n * 128

\* 2 ** n
RECURSIVE Pow2(_)
Pow2(n) == IF n = 0 THEN 1 ELSE 2 * Pow2(n - 1)

\* an attempt of backend b succeeds
CnConnect(b) ==
    /\ cnPc[b] = "connecting"
    /\ cnPc' = [cnPc EXCEPT ![b] = "connected"]
    /\ UNCHANGED <<cnRetries, cnDelay, cnSleeps>>
    /\ UNCHANGED exceptConn

\* RedisConnectionManager.connect_with_retry, a failed attempt: sleep
\* current_delay, then current_delay = min(current_delay * 1.5, 600); the loop
\* is while True
CnRedisRetry ==
    /\ cnPc["redis"] = "connecting"
    /\ cnRetries["redis"] < MaxAttempts
    /\ cnRetries' = [cnRetries EXCEPT !["redis"] = @ + 1]
    /\ cnSleeps' = [cnSleeps EXCEPT !["redis"] = Append(@, cnDelay)]
    /\ cnDelay' = IF (cnDelay * 3) \div 2 < Seconds(RedisMaxDelay)
                  THEN (cnDelay * 3) \div 2 ELSE Seconds(RedisMaxDelay)
    /\ UNCHANGED cnPc
    /\ UNCHANGED exceptConn

\* PostgresRepository.connect_with_retry, a failed attempt: retry_count += 1,
\* sleep 2 ** retry_count seconds; after MAX_RETRIES failures the loop ends
\* and the method raises
CnPostgresRetry ==
    /\ cnPc["postgres"] = "connecting"
    /\ cnRetries' = [cnRetries EXCEPT !["postgres"] = @ + 1]
    /\ cnSleeps' = [cnSleeps EXCEPT !["postgres"] =
                       Append(@, Seconds(Pow2(cnRetries["postgres"] + 1)))]
    /\ cnPc' = [cnPc EXCEPT !["postgres"] =
                   IF cnRetries["postgres"] + 1 < PgMaxRetries
                   THEN "connecting" ELSE "gave_up"]
    /\ UNCHANGED cnDelay
    /\ UNCHANGED exceptConn

\* QdrantClientManager.connect_with_retry, a failed attempt: retries += 1,
\* sleep retry_delay; after max_retries failures the method raises
CnQdrantRetry ==
    /\ cnPc["qdrant"] = "connecting"
    /\ cnRetries' = [cnRetries EXCEPT !["qdrant"] = @ + 1]
    /\ cnSleeps' = [cnSleeps EXCEPT !["qdrant"] = Append(@, Seconds(QdrantRetryDelay))]
    /\ cnPc' = [cnPc EXCEPT !["qdrant"] =
                   IF cnRetries["qdrant"] + 1 < QdrantMaxRetries
                   THEN "connecting" ELSE "gave_up"]
    /\ UNCHANGED cnDelay
    /\ UNCHANGED exceptConn

InitConn == IdleJobs /\ IdleCore

NextConn ==
    \/ \E b \in Backends : CnConnect(b)
    \/ CnRedisRetry
    \/ CnPostgresRetry
    \/ CnQdrantRetry

SpecConn == InitConn /\ [][NextConn]_vars

(* ----------------------------- HybridCache.ttl ------------------------- *)
\* HybridCache.setex(key, seconds, value): both tiers hold the key
TtlSetex(seconds) ==
    /\ tRedis' = seconds
    /\ tPg' = seconds
    /\ UNCHANGED tCall
    /\ UNCHANGED exceptTtl

\* a second passes: a TTL of one second runs out
TtlTick ==
    /\ tRedis # NoSuchKey \/ tPg # NoSuchKey
    /\ tRedis' = IF tRedis > 1 THEN tRedis - 1 ELSE NoSuchKey
    /\ tPg' = IF tPg > 1 THEN tPg - 1 ELSE NoSuchKey
    /\ UNCHANGED tCall
    /\ UNCHANGED exceptTtl

\* Redis loses the key (restart, eviction); the row of cache_data stays
TtlRedisLosesKey ==
    /\ tRedis # NoSuchKey
    /\ tRedis' = NoSuchKey
    /\ UNCHANGED <<tPg, tCall>>
    /\ UNCHANGED exceptTtl

\* HybridCache.ttl(key): the TTL of Redis when Redis has the key; otherwise
\* self.postgres.exists(key), a method PostgresCache does not define: the
\* call raises AttributeError before anything is read or written
TtlCall ==
    /\ tCall' = [durableOnly |-> tRedis = NoSuchKey /\ tPg # NoSuchKey,
                 durableTtl |-> tPg,
                 ended |-> IF tRedis # NoSuchKey THEN "returned" ELSE "raised",
                 ttl |-> tRedis]
    /\ UNCHANGED <<tRedis, tPg>>
    /\ UNCHANGED exceptTtl

InitTtl == IdleJobs /\ IdleCore

NextTtl ==
    \/ \E seconds \in 1..MaxTtl : TtlSetex(seconds)
    \/ TtlTick
    \/ TtlRedisLosesKey
    \/ TtlCall

SpecTtl == InitTtl /\ [][NextTtl]_vars

(* ------------------------------- ingestion ----------------------------- *)
\* store_job_data: await self.setex(f"job:{job_id}:status", expiration, "pending"),
\* the first of its four writes
InStoreStatus(j) ==
    /\ inApi[j] = "idle"
    /\ inStatus' = [inStatus EXCEPT ![j] = "pending"]
    /\ inApi' = [inApi EXCEPT ![j] = "client"]
    /\ UNCHANGED <<inKeys, inW, inError>>
    /\ UNCHANGED exceptIng

\* store_job_data: the writes of job:{id}:client, job:{id}:data and
\* job:{id}:type, each its own awaited SETEX, in this order
NextIngestKey(k) ==
    CASE k = "client" -> "data"
      [] k = "data" -> "type"
      [] k = "type" -> "done"

InStoreKey(j) ==
    /\ inApi[j] \in {"client", "data", "type"}
    /\ inKeys' = [inKeys EXCEPT ![j] = @ \cup {inApi[j]}]
    /\ inApi' = [inApi EXCEPT ![j] = NextIngestKey(@)]
    /\ UNCHANGED <<inStatus, inW, inError>>
    /\ UNCHANGED exceptIng

\* poll_for_jobs: status = await redis_client.get(job_key); if status == "pending":
\* setex(job:{id}:status, 24h, "processing"); asyncio.create_task(process_job(...))
InPollJob(j) ==
    /\ inW.pc = "idle"
    /\ inStatus[j] = "pending"
    /\ inStatus' = [inStatus EXCEPT ![j] = "processing"]
    /\ inW' = [pc |-> "get_data", job |-> j, data |-> FALSE, type |-> FALSE]
    /\ UNCHANGED <<inKeys, inApi, inError>>
    /\ UNCHANGED exceptIng

\* process_job: job_data_json = await redis_client.get(f"job:{job_id}:data")
InGetData ==
    /\ inW.pc = "get_data"
    /\ inW' = [inW EXCEPT !.pc = "get_type", !.data = "data" \in inKeys[inW.job]]
    /\ UNCHANGED <<inStatus, inKeys, inApi, inError>>
    /\ UNCHANGED exceptIng

\* process_job: job_type = await redis_client.get(f"job:{job_id}:type")
InGetType ==
    /\ inW.pc = "get_type"
    /\ inW' = [inW EXCEPT !.pc = "run", !.type = "type" \in inKeys[inW.job]]
    /\ UNCHANGED <<inStatus, inKeys, inApi, inError>>
    /\ UNCHANGED exceptIng

\* process_job: if not job_data_json: raise Exception("Job data for job ... not found");
\* except Exception: setex(status, 24h, "failed"); setex(error, 24h, str(e))
InDataNotFound ==
    /\ inW.pc = "run"
    /\ ~inW.data
    /\ inStatus' = [inStatus EXCEPT ![inW.job] = "failed"]
    /\ inError' = [inError EXCEPT ![inW.job] = "data_not_found"]
    /\ inW' = [inW EXCEPT !.pc = "idle"]
    /\ UNCHANGED <<inKeys, inApi>>
    /\ UNCHANGED exceptIng

\* process_job: the analysis returns; setex(results); setex(status, 7d, "completed")
InComplete ==
    /\ inW.pc = "run"
    /\ inW.data
    /\ inStatus' = [inStatus EXCEPT ![inW.job] = "completed"]
    /\ inW' = [inW EXCEPT !.pc = "idle"]
    /\ UNCHANGED <<inKeys, inApi, inError>>
    /\ UNCHANGED exceptIng

InitIngest == IdleJobs /\ IdleCore

NextIngest ==
    \/ \E j \in Jobs : InStoreStatus(j)
    \/ \E j \in Jobs : InStoreKey(j)
    \/ \E j \in Jobs : InPollJob(j)
    \/ InGetData
    \/ InGetType
    \/ InDataNotFound
    \/ InComplete

SpecIngest == InitIngest /\ [][NextIngest]_vars

(* --------------------------- status and results ------------------------ *)
\* an ownership test that lets every client through
AnyClient(client_id, key_client) == TRUE

\* get_job_status, get_job_results: client_id = get(job:{id}:client);
\* "if client_id != key_info["client_id"]": 404
BelongsToClient(client_id, key_client) == client_id = key_client

\* store_job_data called by analyze_email for client c: the status write
TnStoreStatus(c, j) ==
    /\ tnCreator[j] = NoClient
    /\ tnCreator' = [tnCreator EXCEPT ![j] = c]
    /\ tnStatus' = [tnStatus EXCEPT ![j] = "pending"]
    /\ UNCHANGED <<tnClientKey, tnLast>>
    /\ UNCHANGED exceptTenant

\* store_job_data: setex(job:{id}:client, expiration, client_id)
TnStoreClient(j) ==
    /\ tnCreator[j] # NoClient
    /\ tnClientKey[j] = NoClient
    /\ tnStatus[j] = "pending"
    /\ tnClientKey' = [tnClientKey EXCEPT ![j] = tnCreator[j]]
    /\ UNCHANGED <<tnCreator, tnStatus, tnLast>>
    /\ UNCHANGED exceptTenant

\* the worker ends the job: results and completed, or failed and the error
TnJobEnds(j, s) ==
    /\ tnStatus[j] = "pending"
    /\ tnStatus' = [tnStatus EXCEPT ![j] = s]
    /\ UNCHANGED <<tnCreator, tnClientKey, tnLast>>
    /\ UNCHANGED exceptTenant

\* job:{id}:client, written with 24 hours, expires before the status the
\* worker rewrote with 7 days
TnClientKeyExpires(j) ==
    /\ tnClientKey[j] # NoClient
    /\ tnStatus[j] \in {"completed", "failed"}
    /\ tnClientKey' = [tnClientKey EXCEPT ![j] = NoClient]
    /\ UNCHANGED <<tnCreator, tnStatus, tnLast>>
    /\ UNCHANGED exceptTenant

\* get_job_status for a key of client c: 404 when the status key is absent or
\* the job is not the client's; else the status, and the error of a failed job
GetJobStatus(c, j) ==
    IF tnStatus[j] = "none" THEN [code |-> 404, disclosed |-> {}]
    ELSE IF ~BelongsToClient(tnClientKey[j], c) THEN [code |-> 404, disclosed |-> {}]
    ELSE [code |-> 200,
          disclosed |-> IF tnStatus[j] = "failed" THEN {"status", "error"}
                        ELSE {"status"}]

\* get_job_results for a key of client c: the same two tests, then 404 unless
\* the status is completed, else the results
GetJobResultsFor(c, j) ==
    IF tnStatus[j] = "none" THEN [code |-> 404, disclosed |-> {}]
    ELSE IF ~BelongsToClient(tnClientKey[j], c) THEN [code |-> 404, disclosed |-> {}]
    ELSE IF tnStatus[j] # "completed"
    THEN [code |-> 404, disclosed |-> {"status"}]
    ELSE [code |-> 200, disclosed |-> {"results"}]

TnGetStatus(c, j) ==
    /\ tnLast' = [kind |-> "status", client |-> c, job |-> j,
                  code |-> GetJobStatus(c, j).code,
                  disclosed |-> GetJobStatus(c, j).disclosed]
    /\ UNCHANGED <<tnCreator, tnClientKey, tnStatus>>
    /\ UNCHANGED exceptTenant

TnGetResults(c, j) ==
    /\ tnLast' = [kind |-> "results", client |-> c, job |-> j,
                  code |-> GetJobResultsFor(c, j).code,
                  disclosed |-> GetJobResultsFor(c, j).disclosed]
    /\ UNCHANGED <<tnCreator, tnClientKey, tnStatus>>
    /\ UNCHANGED exceptTenant

InitTenant == IdleJobs /\ IdleCore

NextTenant ==
    \/ \E c \in Clients, j \in Jobs : TnStoreStatus(c, j)
    \/ \E j \in Jobs : TnStoreClient(j)
    \/ \E j \in Jobs, s \in {"completed", "failed"} : TnJobEnds(j, s)
    \/ \E j \in Jobs : TnClientKeyExpires(j)
    \/ \E c \in Clients, j \in Jobs : TnGetStatus(c, j)
    \/ \E c \in Clients, j \in Jobs : TnGetResults(c, j)

SpecTenant == InitTenant /\ [][NextTenant]_vars

(* ------------------------- repository contracts ------------------------ *)
\* the workers whose claim on j returned true and has not expired
ClaimHolders(j) ==
    {w \in Workers : claimRes[w][j] = "true" /\ claimExp[w][j] > now}

ClaimWinners(j) == {w \in Workers : claimRes[w][j] = "true"}

C11_ExpiredLockIsReset ==
    \A j \in Jobs :
        (status[j] = "processing" /\ lockExpires[j] < now) ~> (status[j] = "pending")

(* --------------------------- delivery contracts ------------------------ *)
\* C2: when the task of one job is delivered to two workers, only one of them
\* writes the job's results; the other aborts without writing any.
C2_OneWorkerWritesResults ==
    \A j \in Jobs : Cardinality(resultsBy[j]) <= 1

(* ---------------------------- sweep contracts -------------------------- *)
\* C3: get_pending_jobs moves the candidates it returns to scheduled within the
\* call, so two sweeps that run concurrently never both return the same job.
C3_SweepsReturnDisjoint ==
    \A j \in Jobs : Cardinality(returnedBy[j]) <= 1

(* --------------------------- lifecycle contracts ----------------------- *)
\* C4: the stored status of every job is always one of pending, scheduled,
\* processing, completed, failed.
C4_StatusInLifecycle ==
    \A j \in Jobs :
        status[j] \in {"pending", "scheduled", "processing", "completed", "failed"}

\* C5: every change of a job's status follows an edge of the lifecycle diagram:
\* pending -> scheduled -> processing -> completed, scheduled or processing ->
\* failed, processing -> pending on lock expiry.
C5_ChangesFollowDiagram ==
    [][\A j \in Jobs :
          status'[j] # status[j] =>
              <<status[j], status'[j]>> \in
                  {<<"pending", "scheduled">>, <<"scheduled", "processing">>,
                   <<"processing", "completed">>, <<"scheduled", "failed">>,
                   <<"processing", "failed">>, <<"processing", "pending">>}]_vars

\* C6: a job's status never moves backward: a completed or failed job keeps its
\* status for ever, a processing job never returns to scheduled and a scheduled
\* job never returns to pending.
C6_StatusNeverMovesBack ==
    [][\A j \in Jobs :
          /\ status[j] \in {"completed", "failed"} => status'[j] = status[j]
          /\ status[j] = "processing" => status'[j] # "scheduled"
          /\ status[j] = "scheduled" => status'[j] # "pending"]_vars

\* C7: within one job, a status write of the scheduler is never applied after a
\* status write of the worker that ran the job's task.
C7_SchedulerNeverOvertakesWorker ==
    [][\A j \in Jobs : lastWriter[j] = "worker" => lastWriter'[j] # "scheduler"]_vars

(* --------------------------- claim contracts --------------------------- *)
\* C8: on the vector-store backend, of the claim_job calls made concurrently on
\* a pending job only one returns true, and a call returns true only if the
\* status was still pending when its write took effect.
C8_VectorClaimIsCas ==
    \A j \in Jobs : Cardinality(ClaimWinners(j)) <= 1

C10_LockOnlyWhileProcessing ==
    \A j \in Jobs : lockExpires[j] > now => status[j] = "processing"

(* ------------------------- error-handling contracts -------------------- *)
\* C12: when processing a job raises in the poll-loop worker, then at the moment
\* the worker has finished handling the job its status is failed and the
\* exception message is stored as its error.
C12_RaisedJobEndsFailed ==
    [][\A w \in Workers :
          (wPc[w] = "k_process" /\ wPc'[w] \in {"idle", "k_status"})
          => (status'[wJob[w]] = "failed" /\ errorMsg'[wJob[w]] # "")]_vars

\* C13: when a broker embedding task raises while handling a job, the job ends
\* in status failed with the error message stored.
C13_RaisedTaskEndsFailed ==
    [][\A w \in Workers :
          (wPc[w] = "embed" /\ wPc'[w] = "idle")
          => (status'[wJob[w]] = "failed" /\ errorMsg'[wJob[w]] # "")]_vars

\* C14: a step of store_job_error that records an error for a job leaves that
\* job with status failed, on every repository backend
C14_StoredErrorMeansFailed ==
    [][\A j \in Jobs :
          errorMsg'[j] # errorMsg[j] => status'[j] = "failed"]_vars

\* C17: when the enqueue of a candidate fails (the sweep moves past the
\* candidate and no task was added to the queue), the job's error message is
\* recorded by store_job_error
C17_EnqueueFailureStoresError ==
    [][\A s \in Sweeps :
          (/\ swPc[s] = "enqueue"
           /\ (swPc'[s] # "enqueue" \/ swIdx'[s] # swIdx[s])
           /\ queue' = queue)
          => errorMsg'[swRows[s][swIdx[s]]] # ""]_vars

\* C15: when a job is completed with its results stored, the webhook call
\* (whatever the endpoint does) leaves the status completed, the results and
\* the error untouched, and the worker leaves the job: it neither repeats the
\* call nor processes the job again
C15_WebhookFailureKeepsCompleted ==
    [][\A w \in Workers :
          (/\ wPc[w] = "k_notify"
           /\ wPc'[w] # wPc[w]
           /\ status[wJob[w]] = "completed")
          => (/\ status'[wJob[w]] = "completed"
              /\ errorMsg'[wJob[w]] = errorMsg[wJob[w]]
              /\ resultsBy'[wJob[w]] = resultsBy[wJob[w]]
              /\ wPc'[w] \in {"idle", "k_status"}
              /\ wJob'[w] # wJob[w])]_vars

\* a job is completed with results after its webhook failed
C15_Witness ==
    \E j \in Jobs : /\ hook[j] \in {"non2xx", "timeout", "raises"}
                     /\ status[j] = "completed"
                     /\ resultsBy[j] # {}

\* C16: a sweep ends only after it has handled the last candidate of its
\* list, so every candidate it listed got its enqueue call in that sweep
C16_SweepHandlesEveryCandidate ==
    [][\A s \in Sweeps :
          (swPc[s] # "idle" /\ swPc'[s] = "idle")
          => swIdx[s] >= Len(swRows[s])]_vars

\* C18: every id returned by next_id is greater than the id returned before
\* it, with concurrent callers, a clock that steps back, and more than 4096
\* ids asked for within one millisecond
C18_IdsIncrease == sfPrev < sfId

\* the sequence wrapped within one millisecond and the next id was issued,
\* while the clock is behind last_timestamp and another thread is in next_id
C18_Witness ==
    /\ sfPrev >= 0
    /\ sfPrev % (SequenceMask + 1) = SequenceMask
    /\ sfClock < last_timestamp
    /\ sfLock # 0

\* C19: within one minute window no client has more than requests_per_minute
\* of its requests admitted (the modelled time stays inside one window)
C19_AdmittedWithinLimit ==
    rlNow < RateWindow => \A c \in Clients : rlAdmitted[c] <= RequestsPerMinute

\* C20: when no setex or get is in flight and no repopulation task is left,
\* both tiers hold the value of the last setex made for the key
C20_TiersHoldLastWrite ==
    (/\ \A c \in Callers : cPc[c] = "idle"
     /\ cRepop = {}
     /\ cLastWrite # 0)
    => (cRedis = cLastWrite /\ cPg = cLastWrite)

\* C21: once a delete has returned and the key is in neither tier, it stays
\* out of Redis unless a write is under way: no step of an earlier
\* read-through brings it back, so get keeps returning nothing
C21_DeletedKeyStaysAbsent ==
    [][(cDeleted /\ cRedis = 0 /\ cPg = 0 /\ ~CacheWriteInFlight)
       => (cRedis' = 0 /\ cPg' = 0)]_vars

\* C22: when no mirror task is left, PostgreSQL holds the value the counter
\* has in Redis
C22_MirrorHoldsFinalValue ==
    (ctrTasks = {} /\ ctrRedis > 0) => ctrPg = ctrRedis

\* the chunks with the overlap taken off every chunk after the first, joined
RECURSIVE ConcatWithoutOverlap(_, _)
ConcatWithoutOverlap(chunks, i) ==
    IF i > Len(chunks) THEN <<>>
    ELSE (IF i = 1 THEN chunks[i]
          ELSE Slice(chunks[i], ChunkOverlap, Len(chunks[i])))
         \o ConcatWithoutOverlap(chunks, i + 1)

\* C24: the chunks chunk_text returns, with the overlap removed from every
\* chunk after the first and joined in order, are the text
C24_ChunksRoundTrip ==
    ckPc = "returned" => ConcatWithoutOverlap(ckChunks, 1) = ckText

\* chunk_text returned three chunks, one of them cut at a separator found
\* before the target
C24_Witness ==
    /\ ckPc = "returned"
    /\ Len(ckChunks) >= 3
    /\ \E i \in 1..Len(ckBreaks) : ckBreaks[i][2] < ckBreaks[i][1]

\* C25: every break point is at most 50 characters before its target position
\* and never after it
C25_BreakPointNearTarget ==
    \A i \in 1..Len(ckBreaks) :
        /\ ckBreaks[i][1] - ckBreaks[i][2] <= WindowSize
        /\ ckBreaks[i][2] <= ckBreaks[i][1]

\* a break point at the far end of the window, and one on the target itself
C25_Witness ==
    /\ \E i \in 1..Len(ckBreaks) : ckBreaks[i][1] - ckBreaks[i][2] = WindowSize - 1
    /\ \E i \in 1..Len(ckBreaks) : ckBreaks[i][2] = ckBreaks[i][1]

\* C23: for every embedding job that ends completed, each chunk of the body
\* and of each accepted attachment has exactly one persisted point: none is
\* missing and none is duplicated.
C23_OnePointPerChunk ==
    emStatus = "completed" =>
        \A k \in 1..Len(emResults) :
            \A c \in 0..(emResults[k].chunk_count - 1) :
                Cardinality({p \in emPoints : p.doc = emResults[k].doc
                                              /\ p.chunk_index = c}) = 1

\* the start_idx values of the batches of a text of n chunks
BatchStarts(n) == {b \in 0..(n - 1) : b % BatchSize = 0}

\* the chunk_index values of a result are in document order
InDocumentOrder(embeddings) ==
    \A i \in 1..(Len(embeddings) - 1) : embeddings[i] < embeddings[i + 1]

\* C26: when a batch of embedding_text fails, every later batch is still
\* embedded: the result of the body holds every chunk of every batch that did
\* not fail, with chunk_index values in document order.
C26_LaterBatchesEmbedded ==
    \A k \in 1..Len(emResults) :
        emResults[k].doc = 0 =>
            /\ InDocumentOrder(emResults[k].embeddings)
            /\ \A b \in BatchStarts(emResults[k].chunk_count) \ emResults[k].failed :
                   \A c \in b..(b + BatchLen(b, emResults[k].chunk_count) - 1) :
                       \E i \in 1..Len(emResults[k].embeddings) :
                           emResults[k].embeddings[i] = c

\* the body has three batches, the second failed at its last chunk, and the
\* chunks of the third and all but one of the second are in the result
C26_Witness ==
    /\ Len(emResults) >= 1
    /\ emResults[1].doc = 0
    /\ emResults[1].chunk_count = 2 * BatchSize + 1
    /\ emResults[1].failed = {BatchSize}
    /\ Len(emResults[1].embeddings) = 2 * BatchSize

\* the documents that have a result
ResultDocs == {emResults[k].doc : k \in 1..Len(emResults)}

\* C27: an attachment that is unsupported, yields no text or fails does not
\* stop the task: the results hold the body and every other attachment, and
\* the task ends with the job completed.
C27_AttachmentFailureIsolated ==
    /\ emSkipped # {} => emPc # "raised"
    /\ emPc \in {"store", "done"} =>
           ResultDocs = ({0} \cup Attachments) \ emSkipped
    /\ emPc = "done" => emStatus = "completed"

\* the first attachment failed, the second was embedded, the job is completed
C27_Witness ==
    /\ emPc = "done"
    /\ emStatus = "completed"
    /\ emSkipped = {1}
    /\ ResultDocs = {0, 2}

\* every embedding of every result has a point
AllStored ==
    \A k \in 1..Len(emResults) :
        \A i \in 1..Len(emResults[k].embeddings) :
            \E p \in emPoints : /\ p.doc = emResults[k].doc
                                /\ p.chunk_index = emResults[k].embeddings[i]

\* C28: once the results of a job are stored, storing the same results again
\* leaves the collection as it is.
C28_StoreTwiceSameState ==
    [][(emPc = "store" /\ emStores >= 1 /\ AllStored /\ emStores' = emStores + 1)
       => emPoints' = emPoints]_vars

\* C29: when the worker has exited after a shutdown signal, no job is left in
\* processing: the job in flight reached completed or failed first.
C29_ShutdownDrainsJob ==
    shPc = "exited" => \A j \in PolledJobs : shStatus[j] # "processing"

C31_MissingJobNotFound ==
    (updCall.backend # "none" /\ ~updCall.existed) =>
        /\ updCall.ended = "not_found"
        /\ updStatus[updCall.backend][updCall.job] = "absent"

\* C32: a request that fails authentication (missing, invalid or expired
\* key) or lacks the permission is answered 401 or 403 and writes no job.
C32_RejectedRequestWritesNoJob ==
    auLast.failure # "none" =>
        /\ auLast.code \in {401, 403}
        /\ ~auLast.created

\* C33: a repository that cannot reach its store never gives up connecting;
\* its first delay is 30 seconds, each delay is at least the one before it
\* (larger while below the cap) and none exceeds 600 seconds.
C33_RetriesForeverWithBackoff ==
    \A b \in Backends :
        /\ cnPc[b] # "gave_up"
        /\ Len(cnSleeps[b]) >= 1 => cnSleeps[b][1] = Seconds(RedisInitialDelay)
        /\ \A i \in 1..Len(cnSleeps[b]) : cnSleeps[b][i] <= Seconds(RedisMaxDelay)
        /\ \A i \in 1..(Len(cnSleeps[b]) - 1) :
               \/ cnSleeps[b][i] < cnSleeps[b][i + 1]
               \/ cnSleeps[b][i] = Seconds(RedisMaxDelay)
                  /\ cnSleeps[b][i + 1] = Seconds(RedisMaxDelay)

\* C34: ttl(k) for a key that is in the durable tier only returns the key's
\* remaining durable TTL (and repopulates the fast tier).
C34_TtlFallsBackToDurable ==
    tCall.durableOnly =>
        /\ tCall.ended = "returned"
        /\ tCall.ttl = tCall.durableTtl

(* --------------------------- poll-loop contracts ----------------------- *)
\* the positions of a poll-loop worker between its write of processing and the
\* end of process_job for the job it holds
KvStarted == {"k_process", "k_store", "k_complete", "k_notify", "k_error"}

\* C35: two poll-loop workers sharing the key-value store never both start the
\* same pending job: after one has written processing for it, the other does
\* not process it as well.
C35_PollClaimExclusive ==
    \A w1, w2 \in Workers :
        (w1 # w2 /\ wPc[w1] \in KvStarted /\ wPc[w2] \in KvStarted)
            => wJob[w1] # wJob[w2]

\* get_job_results, after the existence and client tests: 404 "not available
\* yet" unless the status is completed, 404 "not found" when the key
\* job:{id}:results holds nothing, else the stored results
GetJobResults(st, res) ==
    IF st # "completed" THEN "not_available_yet"
    ELSE IF res = {} THEN "results_not_found"
    ELSE "results"

\* C36: whenever a job's status reads completed its results are stored: the
\* results endpoint answers a completed job with its results, never with
\* results-not-found.
C36_CompletedHasResults ==
    \A j \in Jobs :
        status[j] = "completed" => GetJobResults(status[j], resultsBy[j]) = "results"

C36_Witness ==
    \E j \in Jobs :
        /\ status[j] = "completed"
        /\ resultsBy[j] # {}
        /\ \E w \in Workers : wJob[w] = j /\ wPc[w] = "k_notify"

(* ---------------------------- ingest contracts ------------------------- *)
\* C37: once a newly ingested job's status reads pending its data is readable:
\* a worker that saw pending and started the job never fails it because the
\* job's data had not been written yet.
C37_PendingJobHasData ==
    \A j \in Jobs : inError[j] # "data_not_found"

(* ------------------------ configured chunker --------------------------- *)
\* C38: for every (chunk_size, chunk_overlap) the constructor accepts, each
\* pass of the loop of chunk_text begins at a start offset strictly greater
\* than that of the previous pass, so chunk_text terminates.
C38_StartStrictlyIncreases ==
    czPc = "loop" => czStart > czPrev

(* ----------------------------- retry contracts ------------------------- *)
\* C39: when every provider key is rate limited, an analysis call that is
\* about to try again comes to an end: it stops retrying and raises to its
\* caller (or returns) instead of re-invoking itself for ever.
C39_AllLimitedCallEnds ==
    \A u \in KeyUsers :
        (kLimited = Keys /\ kPc[u] = "retry") ~> (kPc[u] \in {"done", "raised"})

(* ---------------------------- tenant contracts ------------------------- *)
\* C40: a status or results request made with the key of a client that did
\* not create the job is answered 404 and returns none of the job's status,
\* results or error.
C40_OnlyCreatorReads ==
    (tnLast.kind # "none" /\ tnLast.client # tnCreator[tnLast.job])
        => (tnLast.code = 404 /\ tnLast.disclosed = {})

C40_Witness ==
    /\ tnLast.kind = "results"
    /\ tnStatus[tnLast.job] = "completed"
    /\ tnClientKey[tnLast.job] = tnCreator[tnLast.job]
    /\ tnCreator[tnLast.job] # NoClient
    /\ tnLast.client # tnCreator[tnLast.job]
    /\ tnLast.code = 404

====
